---------------------------- MODULE Spec2Model ----------------------------
(***************************************************************************)
(* Model of src-tauri/src/proxy/opencode_sync.rs: the merge of the managed *)
(* provider entry into opencode.json, its removal, the reconciliation of   *)
(* antigravity-accounts.json and the backup / restore life cycle.          *)
(*                                                                         *)
(* JSON values are records [k, s, n, o, a]: k is the kind, s the text of a *)
(* string (a sequence of characters), n a number or boolean, o the map of  *)
(* an object (a function from keys to values), a the items of an array.    *)
(* Text the program never looks into is written as a one-element sequence  *)
(* holding the whole literal.                                              *)
(***************************************************************************)
EXTENDS Integers, Sequences, FiniteSets, TLC

VARIABLES
    nIn, nOut, nDone,            \* normalize_opencode_base_url: input, result, applied
    mIn, mOut,                   \* base_url_matches: three inputs, the result for each pair
    orig, prev, config, hist,    \* in-memory document: initial, before last call, current, calls
    fs, fsInit, fsHist, fsSnap, fsPre, fsRes, \* files on disk and the calls made on them
    fsArgs,                      \* the arguments of the last call
    todo, call                   \* the file operations a running call has left, and the call

normVars  == <<nIn, nOut, nDone, mIn, mOut>>
mergeVars == <<orig, prev, config, hist>>
fsVars    == <<fs, fsInit, fsHist, fsSnap, fsPre, fsRes, fsArgs, todo, call>>
vars      == <<nIn, nOut, nDone, mIn, mOut, orig, prev, config, hist, fs, fsInit, fsHist, fsSnap, fsPre, fsRes,
               fsArgs, todo, call>>

(***************************************************************************)
(* Bounds of the model.                                                    *)
(***************************************************************************)
MaxBaseLen == 3
MaxOps == 2
MaxFsOps == 4
MaxSyncs == 2
MaxCalls == 2

\* The raw reads of one behaviour of ReadSpec.
MaxReads == 2

(***************************************************************************)
(* serde_json::Value                                                       *)
(***************************************************************************)
EmptyMap == <<>>

JNull == [k |-> "null", s |-> <<>>, n |-> 0, o |-> EmptyMap, a |-> <<>>]

JStr(t) == [k |-> "str", s |-> t, n |-> 0, o |-> EmptyMap, a |-> <<>>]

JNum(x) == [k |-> "num", s |-> <<>>, n |-> x, o |-> EmptyMap, a |-> <<>>]

JBool(b) == [k |-> "bool", s |-> <<>>, n |-> IF b THEN 1 ELSE 0, o |-> EmptyMap, a |-> <<>>]

JObj(m) == [k |-> "obj", s |-> <<>>, n |-> 0, o |-> m, a |-> <<>>]

JArr(items) == [k |-> "arr", s |-> <<>>, n |-> 0, o |-> EmptyMap, a |-> items]

is_object(v) == v.k = "obj"

\* Value::get(key): Some only on an object that holds the key.
Has(v, key) == is_object(v) /\ key \in DOMAIN v.o

Get(v, key) == v.o[key]

MapPut(m, key, val) == [x \in (DOMAIN m) \cup {key} |-> IF x = key THEN val ELSE m[x]]

MapRemove(m, key) == [x \in (DOMAIN m) \ {key} |-> m[x]]

\* Map::insert on the map of an object value.
Insert(v, key, val) == JObj(MapPut(v.o, key, val))

\* Map::remove on the map of an object value.
Remove(v, key) == JObj(MapRemove(v.o, key))

(***************************************************************************)
(* Constants of the program.                                               *)
(***************************************************************************)
ANTIGRAVITY_PROVIDER_ID == "antigravity-manager"

OPENCODE_CONFIG_FILE == "opencode.json"

ANTIGRAVITY_CONFIG_FILE == "antigravity.json"

ANTIGRAVITY_ACCOUNTS_FILE == "antigravity-accounts.json"

BACKUP_SUFFIX == ".antigravity-manager.bak"

OLD_BACKUP_SUFFIX == ".antigravity.bak"

SchemaUrl == <<"https://opencode.ai/config.json">>

NpmValue == <<"@ai-sdk/anthropic">>

NameValue == <<"Antigravity Manager">>

V1 == <<"/", "v", "1">>

(***************************************************************************)
(* normalize_opencode_base_url                                             *)
(***************************************************************************)
IsWs(c) == c = " "

RECURSIVE TrimStart(_)
TrimStart(t) == IF t # <<>> /\ IsWs(Head(t)) THEN TrimStart(Tail(t)) ELSE t

RECURSIVE TrimEnd(_)
TrimEnd(t) ==
    IF t # <<>> /\ IsWs(t[Len(t)]) THEN TrimEnd(SubSeq(t, 1, Len(t) - 1)) ELSE t

\* str::trim
Trim(t) == TrimEnd(TrimStart(t))

\* str::trim_end_matches('/')
RECURSIVE TrimEndSlashes(_)
TrimEndSlashes(t) ==
    IF t # <<>> /\ t[Len(t)] = "/" THEN TrimEndSlashes(SubSeq(t, 1, Len(t) - 1)) ELSE t

\* str::ends_with
EndsWith(t, suffix) ==
    /\ Len(t) >= Len(suffix)
    /\ SubSeq(t, Len(t) - Len(suffix) + 1, Len(t)) = suffix

\* Mutant: "/v1" is appended without looking at the end of the input.
normalize_always_appends(input) == TrimEndSlashes(Trim(input)) \o V1

normalize_opencode_base_url(input) ==
    LET trimmed == TrimEndSlashes(Trim(input))
    IN  IF EndsWith(trimmed, V1) THEN trimmed ELSE trimmed \o V1

\* Mutant: the strings are compared after trimming alone.
base_url_matches_trimmed(config_url, proxy_url) ==
    TrimEndSlashes(Trim(config_url)) = TrimEndSlashes(Trim(proxy_url))

\* base_url_matches
base_url_matches(config_url, proxy_url) ==
    normalize_opencode_base_url(config_url) = normalize_opencode_base_url(proxy_url)

(***************************************************************************)
(* The model catalog.                                                      *)
(***************************************************************************)
TextImagePdf == <<"text", "image", "pdf">>

ModelDef(id, name, context_limit, output_limit, output_modalities, reasoning, variant_type) ==
    [id |-> id, name |-> name, context_limit |-> context_limit,
     output_limit |-> output_limit, input_modalities |-> TextImagePdf,
     output_modalities |-> output_modalities, reasoning |-> reasoning,
     variant_type |-> variant_type]

build_model_catalog ==
    << ModelDef("claude-sonnet-4-5", "Claude Sonnet 4.5", 200000, 64000, <<"text">>, FALSE, "None"),
       ModelDef("claude-sonnet-4-5-thinking", "Claude Sonnet 4.5 Thinking", 200000, 64000, <<"text">>, TRUE, "ClaudeThinking"),
       ModelDef("claude-opus-4-5-thinking", "Claude Opus 4.5 Thinking", 200000, 64000, <<"text">>, TRUE, "ClaudeThinking"),
       ModelDef("gemini-3-pro-high", "Gemini 3 Pro High", 1048576, 65535, <<"text", "image">>, TRUE, "Gemini3Pro"),
       ModelDef("gemini-3-pro-low", "Gemini 3 Pro Low", 1048576, 65535, <<"text", "image">>, TRUE, "Gemini3Pro"),
       ModelDef("gemini-3-flash", "Gemini 3 Flash", 1048576, 65536, <<"text">>, TRUE, "Gemini3Flash"),
       ModelDef("gemini-3-pro-image", "Gemini 3 Pro Image", 1048576, 65535, <<"text", "image">>, FALSE, "None"),
       ModelDef("gemini-2.5-flash", "Gemini 2.5 Flash", 1048576, 65536, <<"text">>, FALSE, "None"),
       ModelDef("gemini-2.5-flash-lite", "Gemini 2.5 Flash Lite", 1048576, 65536, <<"text">>, FALSE, "None"),
       ModelDef("gemini-2.5-flash-thinking", "Gemini 2.5 Flash Thinking", 1048576, 65536, <<"text">>, TRUE, "Gemini25Thinking"),
       ModelDef("gemini-2.5-pro", "Gemini 2.5 Pro", 1048576, 65536, <<"text">>, TRUE, "None") >>

\* The keys of catalog_map.
CatalogIds == {build_model_catalog[i].id : i \in DOMAIN build_model_catalog}

\* catalog_map.get(id), for an id of the catalog. HashMap::collect keeps the last
\* definition of an id.
CatalogDef(id) ==
    LET last == CHOOSE i \in DOMAIN build_model_catalog :
                    /\ build_model_catalog[i].id = id
                    /\ \A j \in DOMAIN build_model_catalog :
                           build_model_catalog[j].id = id => j <= i
    IN  build_model_catalog[last]

\* Mutant: the allowlist misses the last model of the catalog.
allowlist_without_gemini_25_pro ==
    << "claude-sonnet-4-5", "claude-sonnet-4-5-thinking", "claude-opus-4-5-thinking",
       "gemini-3-pro-high", "gemini-3-pro-low", "gemini-3-flash", "gemini-3-pro-image",
       "gemini-2.5-flash", "gemini-2.5-flash-lite", "gemini-2.5-flash-thinking" >>

ANTIGRAVITY_MODEL_IDS ==
    << "claude-sonnet-4-5", "claude-sonnet-4-5-thinking", "claude-opus-4-5-thinking",
       "gemini-3-pro-high", "gemini-3-pro-low", "gemini-3-flash", "gemini-3-pro-image",
       "gemini-2.5-flash", "gemini-2.5-flash-lite", "gemini-2.5-flash-thinking",
       "gemini-2.5-pro" >>

build_claude_thinking_variant(budget) ==
    JObj([thinkingConfig |-> JObj([thinkingBudget |-> JNum(budget)]),
          thinking |-> JObj([type |-> JStr(<<"enabled">>), budget_tokens |-> JNum(budget)])])

build_gemini3_variant(level) == JObj([thinkingLevel |-> JStr(<<level>>)])

build_gemini25_thinking_variant(budget) ==
    JObj([thinkingConfig |-> JObj([thinkingBudget |-> JNum(budget)]),
          thinking |-> JObj([type |-> JStr(<<"enabled">>), budget_tokens |-> JNum(budget)])])

\* Option<Value>: [some, v].
build_variants_object(variant_type) ==
    CASE variant_type = "ClaudeThinking" ->
            [some |-> TRUE,
             v |-> JObj([low |-> build_claude_thinking_variant(8192),
                         medium |-> build_claude_thinking_variant(16384),
                         high |-> build_claude_thinking_variant(24576),
                         max |-> build_claude_thinking_variant(32768)])]
      [] variant_type = "Gemini3Pro" ->
            [some |-> TRUE,
             v |-> JObj([low |-> build_gemini3_variant("low"),
                         high |-> build_gemini3_variant("high")])]
      [] variant_type = "Gemini3Flash" ->
            [some |-> TRUE,
             v |-> JObj([minimal |-> build_gemini3_variant("minimal"),
                         low |-> build_gemini3_variant("low"),
                         medium |-> build_gemini3_variant("medium"),
                         high |-> build_gemini3_variant("high")])]
      [] variant_type = "Gemini25Thinking" ->
            [some |-> TRUE,
             v |-> JObj([low |-> build_gemini25_thinking_variant(8192),
                         medium |-> build_gemini25_thinking_variant(12288),
                         high |-> build_gemini25_thinking_variant(16384),
                         max |-> build_gemini25_thinking_variant(24576)])]
      [] OTHER -> [some |-> FALSE, v |-> JNull]

StrArr(items) == JArr([i \in DOMAIN items |-> JStr(<<items[i]>>)])

build_model_json(model_def) ==
    LET base == [name |-> JStr(<<model_def.name>>),
                 limit |-> JObj([context |-> JNum(model_def.context_limit),
                                 output |-> JNum(model_def.output_limit)]),
                 modalities |-> JObj([input |-> StrArr(model_def.input_modalities),
                                      output |-> StrArr(model_def.output_modalities)])]
        withReasoning == IF model_def.reasoning
                         THEN MapPut(base, "reasoning", JBool(TRUE)) ELSE base
        variants == build_variants_object(model_def.variant_type)
    IN  JObj(IF variants.some THEN MapPut(withReasoning, "variants", variants.v)
             ELSE withReasoning)

(***************************************************************************)
(* The merge of the managed provider entry.                                *)
(***************************************************************************)
\* Mutant: the key is reset whatever it holds.
ensure_object_always_resets(value, key) == Insert(value, key, JObj(EmptyMap))

ensure_object(value, key) ==
    IF ~Has(value, key) \/ ~is_object(Get(value, key))
    THEN Insert(value, key, JObj(EmptyMap)) ELSE value

\* On the provider map, held here as the object value that owns it.
ensure_provider_object(provider, name) ==
    IF ~Has(provider, name) \/ ~is_object(Get(provider, name))
    THEN Insert(provider, name, JObj(EmptyMap)) ELSE provider

ensure_provider_string_field(provider, key, value) ==
    IF is_object(provider) THEN Insert(provider, key, JStr(value)) ELSE provider

merge_provider_options(provider, base_url, api_key) ==
    LET p1 == IF ~Has(provider, "options")
              THEN Insert(provider, "options", JObj(EmptyMap)) ELSE provider
        options == Get(p1, "options")
    IN  IF is_object(options)
        THEN Insert(p1, "options",
                    Insert(Insert(options, "baseURL", JStr(base_url)), "apiKey", JStr(api_key)))
        ELSE p1

\* Mutant: a field the existing model has keeps its value.
merge_model_entry_keeps_existing(existing, catalog_model) ==
    JObj([x \in (DOMAIN existing.o) \cup (DOMAIN catalog_model.o) |->
             IF x \in DOMAIN existing.o THEN existing.o[x] ELSE catalog_model.o[x]])

\* The merged entry of a model id that the map already holds as an object.
merge_model_entry(existing, catalog_model) ==
    JObj([x \in (DOMAIN existing.o) \cup (DOMAIN catalog_model.o) |->
             IF x \in DOMAIN catalog_model.o THEN catalog_model.o[x] ELSE existing.o[x]])

\* Mutant: an entry the map already holds as an object is taken out and not put back.
merge_one_model_drops_existing(models, model_id) ==
    IF model_id \notin CatalogIds THEN models
    ELSE IF Has(models, model_id) /\ is_object(Get(models, model_id))
         THEN Remove(models, model_id)
         ELSE Insert(models, model_id, build_model_json(CatalogDef(model_id)))

\* One pass of the loop over ids_to_sync, on the models map.
merge_one_model(models, model_id) ==
    IF model_id \notin CatalogIds THEN models
    ELSE LET catalog_model == build_model_json(CatalogDef(model_id))
         IN  IF Has(models, model_id)
             THEN IF is_object(Get(models, model_id))
                  THEN Insert(models, model_id, merge_model_entry(Get(models, model_id), catalog_model))
                  ELSE Insert(models, model_id, catalog_model)
             ELSE Insert(models, model_id, catalog_model)

RECURSIVE merge_models_loop(_, _)
merge_models_loop(models, ids) ==
    IF ids = <<>> THEN models
    ELSE merge_models_loop(merge_one_model(models, Head(ids)), Tail(ids))

\* ids_to_sync: the given list, or the keys of catalog_map (a HashMap, whose order
\* of iteration is arbitrary; the keys are distinct and each pass touches its own
\* key only, so every order gives the same map).
ids_to_sync(model_ids) ==
    IF model_ids.some THEN model_ids.ids
    ELSE [i \in DOMAIN build_model_catalog |-> build_model_catalog[i].id]

\* Mutant: the models map is built anew from the selected ids.
merge_catalog_models_rebuilds(provider, model_ids) ==
    Insert(provider, "models", merge_models_loop(JObj(EmptyMap), ids_to_sync(model_ids)))

merge_catalog_models(provider, model_ids) ==
    LET p1 == IF ~Has(provider, "models")
              THEN Insert(provider, "models", JObj(EmptyMap)) ELSE provider
        models == Get(p1, "models")
    IN  IF is_object(models)
        THEN Insert(p1, "models", merge_models_loop(models, ids_to_sync(model_ids)))
        ELSE p1

\* Mutant: a `$schema` that is no string is set as well.
apply_sync_resets_schema(config0, proxy_url, api_key, models_to_sync) ==
    LET c1 == IF ~is_object(config0) THEN JObj(EmptyMap) ELSE config0
        c2 == IF ~Has(c1, "$schema") \/ Get(c1, "$schema").k # "str" THEN Insert(c1, "$schema", JStr(SchemaUrl)) ELSE c1
        normalized_url == normalize_opencode_base_url(proxy_url)
        c3 == ensure_object(c2, "provider")
        provider == ensure_provider_object(Get(c3, "provider"), ANTIGRAVITY_PROVIDER_ID)
        ag1 == ensure_provider_string_field(Get(provider, ANTIGRAVITY_PROVIDER_ID), "npm", NpmValue)
        ag2 == ensure_provider_string_field(ag1, "name", NameValue)
        ag3 == merge_provider_options(ag2, normalized_url, api_key)
        ag4 == merge_catalog_models(ag3, models_to_sync)
    IN  Insert(c3, "provider", Insert(provider, ANTIGRAVITY_PROVIDER_ID, ag4))

apply_sync_to_config(config0, proxy_url, api_key, models_to_sync) ==
    LET c1 == IF ~is_object(config0) THEN JObj(EmptyMap) ELSE config0
        c2 == IF ~Has(c1, "$schema") THEN Insert(c1, "$schema", JStr(SchemaUrl)) ELSE c1
        normalized_url == normalize_opencode_base_url(proxy_url)
        c3 == ensure_object(c2, "provider")
        provider == ensure_provider_object(Get(c3, "provider"), ANTIGRAVITY_PROVIDER_ID)
        ag1 == ensure_provider_string_field(Get(provider, ANTIGRAVITY_PROVIDER_ID), "npm", NpmValue)
        ag2 == ensure_provider_string_field(ag1, "name", NameValue)
        ag3 == merge_provider_options(ag2, normalized_url, api_key)
        ag4 == merge_catalog_models(ag3, models_to_sync)
    IN  Insert(c3, "provider", Insert(provider, ANTIGRAVITY_PROVIDER_ID, ag4))

(***************************************************************************)
(* The removal of the managed provider entry and the legacy cleanup.       *)
(***************************************************************************)
RECURSIVE remove_model_ids(_, _)
remove_model_ids(models, ids) ==
    IF ids = <<>> THEN models
    ELSE remove_model_ids(Remove(models, Head(ids)), Tail(ids))

\* Mutant: the apiKey is left in the options that held the proxy's baseURL.
cleanup_legacy_keeps_api_key(provider, proxy_url) ==
    IF ~is_object(provider) THEN provider
    ELSE LET hasModels == Has(provider, "models") /\ is_object(Get(provider, "models"))
             models == remove_model_ids(Get(provider, "models"), ANTIGRAVITY_MODEL_IDS)
             p1 == IF hasModels THEN Insert(provider, "models", models) ELSE provider
             p2 == IF hasModels /\ DOMAIN models.o = {} THEN Remove(p1, "models") ELSE p1
             hasOptions == Has(p2, "options") /\ is_object(Get(p2, "options"))
             options0 == Get(p2, "options")
             should_cleanup == /\ Has(options0, "baseURL")
                               /\ Get(options0, "baseURL").k = "str"
                               /\ base_url_matches(Get(options0, "baseURL").s, proxy_url)
             options == IF should_cleanup
                        THEN Remove(options0, "baseURL") ELSE options0
             p3 == IF hasOptions THEN Insert(p2, "options", options) ELSE p2
         IN  IF hasOptions /\ DOMAIN options.o = {} THEN Remove(p3, "options") ELSE p3

\* Mutant: the models are removed only from an entry whose baseURL is the proxy's.
cleanup_legacy_models_on_match(provider, proxy_url) ==
    IF ~is_object(provider) THEN provider
    ELSE LET hasModels == Has(provider, "models") /\ is_object(Get(provider, "models"))
             models == remove_model_ids(Get(provider, "models"), ANTIGRAVITY_MODEL_IDS)
             matches == /\ Has(provider, "options") /\ Has(Get(provider, "options"), "baseURL")
                        /\ Get(Get(provider, "options"), "baseURL").k = "str"
                        /\ base_url_matches(Get(Get(provider, "options"), "baseURL").s, proxy_url)
             p1 == IF hasModels /\ matches THEN Insert(provider, "models", models) ELSE provider
             p2 == IF hasModels /\ matches /\ DOMAIN models.o = {} THEN Remove(p1, "models") ELSE p1
             hasOptions == Has(p2, "options") /\ is_object(Get(p2, "options"))
             options0 == Get(p2, "options")
             should_cleanup == /\ Has(options0, "baseURL")
                               /\ Get(options0, "baseURL").k = "str"
                               /\ base_url_matches(Get(options0, "baseURL").s, proxy_url)
             options == IF should_cleanup
                        THEN Remove(Remove(options0, "baseURL"), "apiKey") ELSE options0
             p3 == IF hasOptions THEN Insert(p2, "options", options) ELSE p2
         IN  IF hasOptions /\ DOMAIN options.o = {} THEN Remove(p3, "options") ELSE p3

cleanup_legacy_provider(provider, proxy_url) ==
    IF ~is_object(provider) THEN provider
    ELSE LET hasModels == Has(provider, "models") /\ is_object(Get(provider, "models"))
             models == remove_model_ids(Get(provider, "models"), ANTIGRAVITY_MODEL_IDS)
             p1 == IF hasModels THEN Insert(provider, "models", models) ELSE provider
             p2 == IF hasModels /\ DOMAIN models.o = {} THEN Remove(p1, "models") ELSE p1
             hasOptions == Has(p2, "options") /\ is_object(Get(p2, "options"))
             options0 == Get(p2, "options")
             should_cleanup == /\ Has(options0, "baseURL")
                               /\ Get(options0, "baseURL").k = "str"
                               /\ base_url_matches(Get(options0, "baseURL").s, proxy_url)
             options == IF should_cleanup
                        THEN Remove(Remove(options0, "baseURL"), "apiKey") ELSE options0
             p3 == IF hasOptions THEN Insert(p2, "options", options) ELSE p2
         IN  IF hasOptions /\ DOMAIN options.o = {} THEN Remove(p3, "options") ELSE p3

\* Mutant: the `provider` object is removed with all its entries.
apply_clear_drops_provider(config0, proxy_url, clear_legacy) ==
    IF ~(Has(config0, "provider") /\ is_object(Get(config0, "provider"))) THEN config0
    ELSE Remove(config0, "provider")

\* Mutant: an emptied `provider` object is left in the document.
apply_clear_keeps_empty_provider(config0, proxy_url, clear_legacy) ==
    IF ~(Has(config0, "provider") /\ is_object(Get(config0, "provider"))) THEN config0
    ELSE Insert(config0, "provider", Remove(Get(config0, "provider"), ANTIGRAVITY_PROVIDER_ID))

\* Mutant: the legacy cleanup runs, for the empty endpoint, when none is given.
apply_clear_cleans_without_endpoint(config0, proxy_url, clear_legacy) ==
    IF ~(Has(config0, "provider") /\ is_object(Get(config0, "provider"))) THEN config0
    ELSE LET p1 == Remove(Get(config0, "provider"), ANTIGRAVITY_PROVIDER_ID)
             legacy == clear_legacy
             p2 == IF legacy /\ Has(p1, "anthropic")
                   THEN Insert(p1, "anthropic", cleanup_legacy_provider(Get(p1, "anthropic"), proxy_url.v))
                   ELSE p1
             p3 == IF legacy /\ Has(p2, "google")
                   THEN Insert(p2, "google", cleanup_legacy_provider(Get(p2, "google"), proxy_url.v))
                   ELSE p2
         IN  IF DOMAIN p3.o = {} THEN Remove(config0, "provider")
             ELSE Insert(config0, "provider", p3)

\* proxy_url is an Option<&str>: [some, v].
apply_clear_to_config(config0, proxy_url, clear_legacy) ==
    IF ~(Has(config0, "provider") /\ is_object(Get(config0, "provider"))) THEN config0
    ELSE LET p1 == Remove(Get(config0, "provider"), ANTIGRAVITY_PROVIDER_ID)
             legacy == clear_legacy /\ proxy_url.some
             p2 == IF legacy /\ Has(p1, "anthropic")
                   THEN Insert(p1, "anthropic", cleanup_legacy_provider(Get(p1, "anthropic"), proxy_url.v))
                   ELSE p1
             p3 == IF legacy /\ Has(p2, "google")
                   THEN Insert(p2, "google", cleanup_legacy_provider(Get(p2, "google"), proxy_url.v))
                   ELSE p2
         IN  IF DOMAIN p3.o = {} THEN Remove(config0, "provider")
             ELSE Insert(config0, "provider", p3)

(***************************************************************************)
(* Files.  A path is <<file name, suffix>>; the content of a file is       *)
(* [fmt, doc]: fmt "none" for a file that does not exist, "garbage" for    *)
(* text that is not JSON, "user" for JSON laid out by its author and       *)
(* "pretty" for the layout serde_json::to_string_pretty writes; doc is the *)
(* JSON value the text holds.  Reads, writes, copies and renames succeed;  *)
(* the calls that fail are a parse and the listing of the accounts.        *)
(***************************************************************************)
Absent == [fmt |-> "none", doc |-> JNull]

Garbage == [fmt |-> "garbage", doc |-> JNull]

UserText(v) == [fmt |-> "user", doc |-> v]

to_string_pretty(v) == [fmt |-> "pretty", doc |-> v]

\* serde_json::from_str(..).ok(): [some, v].
from_str(content) ==
    IF content.fmt \in {"user", "pretty"} THEN [some |-> TRUE, v |-> content.doc]
    ELSE [some |-> FALSE, v |-> JNull]

Targets == {OPENCODE_CONFIG_FILE, ANTIGRAVITY_ACCOUNTS_FILE}

Suffixes == {"", BACKUP_SUFFIX, OLD_BACKUP_SUFFIX}

Paths == Targets \X Suffixes

config_path == <<OPENCODE_CONFIG_FILE, "">>

accounts_path == <<ANTIGRAVITY_ACCOUNTS_FILE, "">>

\* path.with_file_name(file name + suffix)
with_suffix(path, suffix) == <<path[1], suffix>>

exists(files, path) == files[path].fmt # "none"

\* Mutant: the backup is copied again over the one that exists.
create_backup_overwrites(files, path) ==
    IF ~exists(files, path) THEN files
    ELSE [files EXCEPT ![with_suffix(path, BACKUP_SUFFIX)] = files[path]]

create_backup(files, path) ==
    IF ~exists(files, path) THEN files
    ELSE LET backup_path == with_suffix(path, BACKUP_SUFFIX)
         IN  IF exists(files, backup_path) THEN files
             ELSE [files EXCEPT ![backup_path] = files[path]]

\* Mutant: the backup is copied to the target and stays where it is.
restore_backup_to_target_copies(files, backup_path, target_path) ==
    [files EXCEPT ![target_path] = files[backup_path]]

\* remove_file(target) when it exists, then rename(backup, target).
restore_backup_to_target(files, backup_path, target_path) ==
    [files EXCEPT ![target_path] = files[backup_path], ![backup_path] = Absent]

\* write(tmp, text) then rename(tmp, path): the temporary file is gone afterwards.
write_via_tmp(files, path, content) == [files EXCEPT ![path] = content]

(***************************************************************************)
(* sync_accounts_file: the accounts file rebuilt from the accounts of the  *)
(* application, keeping the state the plugin holds for them.               *)
(***************************************************************************)
\* i64 as i32. A JSON integer is held by its low 32 bits, read as an i32, in n
\* (and, when it is no i32, by its high 32 bits in s: JWide); the cast keeps the
\* low 32 bits, which is n.
as_i32(x) == x

StringFields == {"email", "projectId", "managedProjectId", "lastSwitchReason", "cooldownReason"}

IntFields == {"coolingDownUntil", "cachedQuotaUpdatedAt"}

ValueFields == {"fingerprint", "cachedQuota", "fingerprintHistory"}

RequiredFields == {"refreshToken", "addedAt", "lastUsed"}

PluginAccountFields ==
    StringFields \cup IntFields \cup ValueFields \cup RequiredFields
    \cup {"enabled", "rateLimitResetTimes"}

\* Whether the value deserializes into the field of PluginAccount.
FieldOk(key, v) ==
    CASE key = "refreshToken" -> v.k = "str"
      [] key \in {"addedAt", "lastUsed"} -> v.k = "num"
      [] key \in StringFields -> v.k \in {"str", "null"}
      [] key \in IntFields -> v.k \in {"num", "null"}
      [] key = "enabled" -> v.k \in {"bool", "null"}
      [] key = "rateLimitResetTimes" ->
            v.k = "null" \/ (v.k = "obj" /\ \A x \in DOMAIN v.o : v.o[x].k = "num")
      [] OTHER -> TRUE

\* serde_json::from_value::<PluginAccount>(acc).is_ok(), for the values of the
\* model (an account is never written as an array).
plugin_account_ok(acc) ==
    /\ is_object(acc)
    /\ RequiredFields \subseteq DOMAIN acc.o
    /\ \A key \in (DOMAIN acc.o) \cap PluginAccountFields : FieldOk(key, acc.o[key])

\* The PluginAccount read: its fields that are Some, by their JSON names.
plugin_account(acc) ==
    [key \in {x \in (DOMAIN acc.o) \cap PluginAccountFields : acc.o[x].k # "null"} |-> acc.o[key]]

\* The accounts of the existing file that deserialize, in the file's order.
RECURSIVE existing_plugin_accounts(_)
existing_plugin_accounts(items) ==
    IF items = <<>> THEN <<>>
    ELSE LET rest == existing_plugin_accounts(Tail(items))
         IN  IF plugin_account_ok(Head(items)) THEN <<plugin_account(Head(items))>> \o rest
             ELSE rest

\* HashMap::get on a map filled by insert in the order of `accounts`: the last
\* account inserted under the key. [some, v].
lookup_last(accounts, key, value) ==
    LET hits == {i \in DOMAIN accounts : key \in DOMAIN accounts[i] /\ accounts[i][key] = value}
    IN  IF hits = {} THEN [some |-> FALSE, v |-> EmptyMap]
        ELSE [some |-> TRUE, v |-> accounts[CHOOSE i \in hits : \A j \in hits : j <= i]]

\* Mutant: the cooldown of the existing account is not carried over.
reconcile_account_resets_cooldown(acc, existing, now) ==
    LET rt == lookup_last(existing, "refreshToken", JStr(acc.refresh_token))
        found == IF rt.some THEN rt ELSE lookup_last(existing, "email", JStr(acc.email))
        old == found.v
        base == [email |-> JStr(acc.email), refreshToken |-> JStr(acc.refresh_token),
                 addedAt |-> IF found.some THEN old.addedAt ELSE JNum(now),
                 lastUsed |-> IF found.some /\ old.lastUsed.n > acc.last_used
                              THEN old.lastUsed ELSE JNum(acc.last_used)]
        withProject == IF acc.project_id.some
                       THEN MapPut(base, "projectId", JStr(acc.project_id.v)) ELSE base
        kept == IF found.some
                THEN (DOMAIN old) \ {"email", "refreshToken", "projectId", "addedAt", "lastUsed",
                                    "coolingDownUntil", "cooldownReason"}
                ELSE {}
    IN  [key \in (DOMAIN withProject) \cup kept |->
            IF key \in DOMAIN withProject THEN withProject[key] ELSE old[key]]

\* Mutant: the email is looked up before the refresh token.
reconcile_account_email_first(acc, existing, now) ==
    LET em == lookup_last(existing, "email", JStr(acc.email))
        found == IF em.some THEN em ELSE lookup_last(existing, "refreshToken", JStr(acc.refresh_token))
        old == found.v
        base == [email |-> JStr(acc.email), refreshToken |-> JStr(acc.refresh_token),
                 addedAt |-> IF found.some THEN old.addedAt ELSE JNum(now),
                 lastUsed |-> IF found.some /\ old.lastUsed.n > acc.last_used
                              THEN old.lastUsed ELSE JNum(acc.last_used)]
        withProject == IF acc.project_id.some
                       THEN MapPut(base, "projectId", JStr(acc.project_id.v)) ELSE base
        kept == IF found.some
                THEN (DOMAIN old) \ {"email", "refreshToken", "projectId", "addedAt", "lastUsed"}
                ELSE {}
    IN  [key \in (DOMAIN withProject) \cup kept |->
            IF key \in DOMAIN withProject THEN withProject[key] ELSE old[key]]

\* Mutant: lastUsed is the one of the application.
reconcile_account_app_last_used(acc, existing, now) ==
    LET rt == lookup_last(existing, "refreshToken", JStr(acc.refresh_token))
        found == IF rt.some THEN rt ELSE lookup_last(existing, "email", JStr(acc.email))
        old == found.v
        base == [email |-> JStr(acc.email), refreshToken |-> JStr(acc.refresh_token),
                 addedAt |-> IF found.some THEN old.addedAt ELSE JNum(now),
                 lastUsed |-> JNum(acc.last_used)]
        withProject == IF acc.project_id.some
                       THEN MapPut(base, "projectId", JStr(acc.project_id.v)) ELSE base
        kept == IF found.some
                THEN (DOMAIN old) \ {"email", "refreshToken", "projectId", "addedAt", "lastUsed"}
                ELSE {}
    IN  [key \in (DOMAIN withProject) \cup kept |->
            IF key \in DOMAIN withProject THEN withProject[key] ELSE old[key]]

\* Mutant: lastUsed of a matched account is the sum of the two, not the greater.
reconcile_account_adds_last_used(acc, existing, now) ==
    LET rt == lookup_last(existing, "refreshToken", JStr(acc.refresh_token))
        found == IF rt.some THEN rt ELSE lookup_last(existing, "email", JStr(acc.email))
        old == found.v
        base == [email |-> JStr(acc.email), refreshToken |-> JStr(acc.refresh_token),
                 addedAt |-> IF found.some THEN old.addedAt ELSE JNum(now),
                 lastUsed |-> IF found.some THEN JNum(old.lastUsed.n + acc.last_used)
                              ELSE JNum(acc.last_used)]
        withProject == IF acc.project_id.some
                       THEN MapPut(base, "projectId", JStr(acc.project_id.v)) ELSE base
        kept == IF found.some
                THEN (DOMAIN old) \ {"email", "refreshToken", "projectId", "addedAt", "lastUsed"}
                ELSE {}
    IN  [key \in (DOMAIN withProject) \cup kept |->
            IF key \in DOMAIN withProject THEN withProject[key] ELSE old[key]]

\* The PluginAccount written for an account of the application.
reconcile_account(acc, existing, now) ==
    LET rt == lookup_last(existing, "refreshToken", JStr(acc.refresh_token))
        found == IF rt.some THEN rt ELSE lookup_last(existing, "email", JStr(acc.email))
        old == found.v
        base == [email |-> JStr(acc.email), refreshToken |-> JStr(acc.refresh_token),
                 addedAt |-> IF found.some THEN old.addedAt ELSE JNum(now),
                 lastUsed |-> IF found.some /\ old.lastUsed.n > acc.last_used
                              THEN old.lastUsed ELSE JNum(acc.last_used)]
        withProject == IF acc.project_id.some
                       THEN MapPut(base, "projectId", JStr(acc.project_id.v)) ELSE base
        kept == IF found.some
                THEN (DOMAIN old) \ {"email", "refreshToken", "projectId", "addedAt", "lastUsed"}
                ELSE {}
    IN  [key \in (DOMAIN withProject) \cup kept |->
            IF key \in DOMAIN withProject THEN withProject[key] ELSE old[key]]

\* Mutant: an account disabled for the proxy only is written.
RECURSIVE new_accounts_ignores_proxy_disabled(_, _, _)
new_accounts_ignores_proxy_disabled(app_accounts, existing, now) ==
    IF app_accounts = <<>> THEN <<>>
    ELSE LET acc == Head(app_accounts)
             rest == new_accounts_ignores_proxy_disabled(Tail(app_accounts), existing, now)
         IN  IF acc.disabled THEN rest
             ELSE <<JObj(reconcile_account(acc, existing, now))>> \o rest

RECURSIVE new_accounts(_, _, _)
new_accounts(app_accounts, existing, now) ==
    IF app_accounts = <<>> THEN <<>>
    ELSE LET acc == Head(app_accounts)
             rest == new_accounts(Tail(app_accounts), existing, now)
         IN  IF acc.disabled \/ acc.proxy_disabled THEN rest
             ELSE <<JObj(reconcile_account(acc, existing, now))>> \o rest

\* Mutant: the index is capped from above only.
clamp_index_upper_only(idx, account_count) ==
    IF account_count > 0
    THEN (IF idx > account_count - 1 THEN account_count - 1 ELSE idx)
    ELSE 0

\* i32::clamp(0, account_count - 1), or 0 when there is no account.
clamp_index(idx, account_count) ==
    IF account_count > 0
    THEN (IF idx < 0 THEN 0 ELSE IF idx > account_count - 1 THEN account_count - 1 ELSE idx)
    ELSE 0

\* Mutant: no entry is added for a family that the existing file does not have.
build_accounts_file_no_default_family(existing_json, app_accounts, now) ==
    LET json == existing_json.v
        existing == IF existing_json.some /\ Has(json, "accounts") /\ Get(json, "accounts").k = "arr"
                    THEN existing_plugin_accounts(Get(json, "accounts").a) ELSE <<>>
        existing_active_index ==
            IF existing_json.some /\ Has(json, "activeIndex") /\ Get(json, "activeIndex").k = "num"
            THEN as_i32(Get(json, "activeIndex").n) ELSE 0
        families == IF existing_json.some /\ Has(json, "activeIndexByFamily")
                       /\ is_object(Get(json, "activeIndexByFamily"))
                    THEN Get(json, "activeIndexByFamily").o ELSE EmptyMap
        accounts == new_accounts(app_accounts, existing, now)
        account_count == Len(accounts)
        clamped_active_index == clamp_index(existing_active_index, account_count)
        clamped == [f \in {x \in DOMAIN families : families[x].k = "num"} |->
                       JNum(clamp_index(as_i32(families[f].n), account_count))]
    IN  JObj([version |-> JNum(3),
              accounts |-> JArr(accounts),
              activeIndex |-> JNum(clamped_active_index),
              activeIndexByFamily |->
                  JObj(clamped)])

\* The PluginAccountsFile built from the text of the existing file ([some, v], None
\* when the file is missing or is not JSON) and the accounts of the application.
build_accounts_file(existing_json, app_accounts, now) ==
    LET json == existing_json.v
        existing == IF existing_json.some /\ Has(json, "accounts") /\ Get(json, "accounts").k = "arr"
                    THEN existing_plugin_accounts(Get(json, "accounts").a) ELSE <<>>
        existing_active_index ==
            IF existing_json.some /\ Has(json, "activeIndex") /\ Get(json, "activeIndex").k = "num"
            THEN as_i32(Get(json, "activeIndex").n) ELSE 0
        families == IF existing_json.some /\ Has(json, "activeIndexByFamily")
                       /\ is_object(Get(json, "activeIndexByFamily"))
                    THEN Get(json, "activeIndexByFamily").o ELSE EmptyMap
        accounts == new_accounts(app_accounts, existing, now)
        account_count == Len(accounts)
        clamped_active_index == clamp_index(existing_active_index, account_count)
        clamped == [f \in {x \in DOMAIN families : families[x].k = "num"} |->
                       JNum(clamp_index(as_i32(families[f].n), account_count))]
    IN  JObj([version |-> JNum(3),
              accounts |-> JArr(accounts),
              activeIndex |-> JNum(clamped_active_index),
              activeIndexByFamily |->
                  JObj([f \in (DOMAIN clamped) \cup {"claude", "gemini"} |->
                           IF f \in DOMAIN clamped THEN clamped[f]
                           ELSE JNum(clamped_active_index)])])

\* listing is the result of account::list_accounts(): [ok, accounts]; now is the
\* clock. The result is [fs, res].
sync_accounts_file(files, path, listing, now) ==
    LET f1 == create_backup(files, path)
        existing_json == IF exists(f1, path) THEN from_str(f1[path])
                         ELSE [some |-> FALSE, v |-> JNull]
    IN  IF ~listing.ok THEN [fs |-> f1, res |-> "err"]
        ELSE [fs |-> write_via_tmp(f1, path,
                        to_string_pretty(build_accounts_file(existing_json, listing.accounts, now))),
              res |-> "ok"]

(***************************************************************************)
(* sync_opencode_config, clear_opencode_config, restore_opencode_config.   *)
(* Each takes the files and returns [fs, res].                             *)
(***************************************************************************)
\* Mutant: the backup is taken once the new config is written.
sync_backs_up_after_write(files, proxy_url, api_key, sync_accounts, models_to_sync, listing, now) ==
    LET parsed == IF exists(files, config_path) THEN from_str(files[config_path])
                  ELSE [some |-> FALSE, v |-> JNull]
        doc == apply_sync_to_config(IF parsed.some THEN parsed.v ELSE JObj(EmptyMap),
                                    proxy_url, api_key, models_to_sync)
        f2 == create_backup(write_via_tmp(files, config_path, to_string_pretty(doc)), config_path)
    IN  IF sync_accounts THEN sync_accounts_file(f2, accounts_path, listing, now)
        ELSE [fs |-> f2, res |-> "ok"]

\* Mutant: a config file that does not parse makes the sync fail, as it makes the
\* clear fail.
sync_fails_on_parse_error(files, proxy_url, api_key, sync_accounts, models_to_sync, listing, now) ==
    LET f1 == create_backup(files, config_path)
        parsed == IF exists(f1, config_path) THEN from_str(f1[config_path])
                  ELSE [some |-> TRUE, v |-> JObj(EmptyMap)]
        doc == apply_sync_to_config(parsed.v, proxy_url, api_key, models_to_sync)
        f2 == write_via_tmp(f1, config_path, to_string_pretty(doc))
    IN  IF ~parsed.some THEN [fs |-> f1, res |-> "err"]
        ELSE IF sync_accounts THEN sync_accounts_file(f2, accounts_path, listing, now)
        ELSE [fs |-> f2, res |-> "ok"]

sync_opencode_config(files, proxy_url, api_key, sync_accounts, models_to_sync, listing, now) ==
    LET f1 == create_backup(files, config_path)
        parsed == IF exists(f1, config_path) THEN from_str(f1[config_path])
                  ELSE [some |-> FALSE, v |-> JNull]
        doc == apply_sync_to_config(IF parsed.some THEN parsed.v ELSE JObj(EmptyMap),
                                    proxy_url, api_key, models_to_sync)
        f2 == write_via_tmp(f1, config_path, to_string_pretty(doc))
    IN  IF sync_accounts THEN sync_accounts_file(f2, accounts_path, listing, now)
        ELSE [fs |-> f2, res |-> "ok"]

\* Mutant: the legacy-suffix backup is looked for first.
restore_target_legacy_first(files, path) ==
    IF exists(files, with_suffix(path, OLD_BACKUP_SUFFIX))
    THEN [fs |-> restore_backup_to_target(files, with_suffix(path, OLD_BACKUP_SUFFIX), path),
          restored |-> TRUE]
    ELSE IF exists(files, with_suffix(path, BACKUP_SUFFIX))
    THEN [fs |-> restore_backup_to_target(files, with_suffix(path, BACKUP_SUFFIX), path),
          restored |-> TRUE]
    ELSE [fs |-> files, restored |-> FALSE]

\* The restore of one target file: [fs, restored].
restore_target(files, path) ==
    IF exists(files, with_suffix(path, BACKUP_SUFFIX))
    THEN [fs |-> restore_backup_to_target(files, with_suffix(path, BACKUP_SUFFIX), path),
          restored |-> TRUE]
    ELSE IF exists(files, with_suffix(path, OLD_BACKUP_SUFFIX))
    THEN [fs |-> restore_backup_to_target(files, with_suffix(path, OLD_BACKUP_SUFFIX), path),
          restored |-> TRUE]
    ELSE [fs |-> files, restored |-> FALSE]

restore_opencode_config(files) ==
    LET r1 == restore_target(files, config_path)
        r2 == restore_target(r1.fs, accounts_path)
    IN  [fs |-> r2.fs, res |-> IF r1.restored \/ r2.restored THEN "ok" ELSE "err"]

\* Mutant: an accounts file that has no backup is left where it is.
clear_opencode_config_keeps_accounts(files, proxy_url, clear_legacy) ==
    LET f1 == create_backup(files, config_path)
        parsed == from_str(f1[config_path])
        f2 == IF exists(files, config_path)
              THEN write_via_tmp(f1, config_path,
                       to_string_pretty(apply_clear_to_config(parsed.v, proxy_url, clear_legacy)))
              ELSE files
        f3 == IF exists(f2, with_suffix(accounts_path, BACKUP_SUFFIX))
              THEN restore_backup_to_target(f2, with_suffix(accounts_path, BACKUP_SUFFIX), accounts_path)
              ELSE IF exists(f2, with_suffix(accounts_path, OLD_BACKUP_SUFFIX))
              THEN restore_backup_to_target(f2, with_suffix(accounts_path, OLD_BACKUP_SUFFIX), accounts_path)
              ELSE f2
    IN  IF exists(files, config_path) /\ ~parsed.some
        THEN [fs |-> f1, res |-> "err"]
        ELSE [fs |-> f3, res |-> "ok"]

clear_opencode_config(files, proxy_url, clear_legacy) ==
    LET f1 == create_backup(files, config_path)
        parsed == from_str(f1[config_path])
        f2 == IF exists(files, config_path)
              THEN write_via_tmp(f1, config_path,
                       to_string_pretty(apply_clear_to_config(parsed.v, proxy_url, clear_legacy)))
              ELSE files
        f3 == IF exists(f2, with_suffix(accounts_path, BACKUP_SUFFIX))
              THEN restore_backup_to_target(f2, with_suffix(accounts_path, BACKUP_SUFFIX), accounts_path)
              ELSE IF exists(f2, with_suffix(accounts_path, OLD_BACKUP_SUFFIX))
              THEN restore_backup_to_target(f2, with_suffix(accounts_path, OLD_BACKUP_SUFFIX), accounts_path)
              ELSE [f2 EXCEPT ![accounts_path] = Absent]
    IN  IF exists(files, config_path) /\ ~parsed.some
        THEN [fs |-> f1, res |-> "err"]
        ELSE [fs |-> f3, res |-> "ok"]

(***************************************************************************)
(* Inputs of the in-memory transformations.                                *)
(***************************************************************************)
None == [some |-> FALSE, v |-> <<>>]

Some(x) == [some |-> TRUE, v |-> x]

AllModels == [some |-> FALSE, ids |-> <<>>]

OnlyModels(ids) == [some |-> TRUE, ids |-> ids]

\* A key that a document does not hold.
JAbsent == [k |-> "absent", s |-> <<>>, n |-> 0, o |-> EmptyMap, a |-> <<>>]

\* The object holding the given <<key, value>> pairs whose value is present.
Obj(pairs) ==
    LET present == {p \in pairs : p[2] # JAbsent}
    IN  JObj([x \in {p[1] : p \in present} |-> (CHOOSE p \in present : p[1] = x)[2]])

ModelA == "claude-sonnet-4-5"

ModelB == "gemini-3-pro-high"

ModelC == "gemini-2.5-pro"

UrlH == <<"h">>

UrlG == <<" ", "g", "/", "v", "1", "/">>

UrlOld == <<"o", "/">>

Endpoints == {UrlH, UrlG}

Credentials == {<<"test-api-key">>}

Selectors ==
    {AllModels, OnlyModels(<<ModelA, ModelB>>), OnlyModels(<<ModelA, ModelB, ModelC>>),
     OnlyModels(<<"not-a-model", ModelC>>)}

ClearInputs ==
    {<<None, FALSE>>, <<None, TRUE>>, <<Some(UrlH), TRUE>>, <<Some(UrlG), FALSE>>}

UserModel == JObj([name |-> JStr(<<"My Model">>)])

OptionChoices ==
    {JAbsent, JStr(<<"opts">>), JObj(EmptyMap), JObj([timeout |-> JNum(30)]),
     JObj([baseURL |-> JStr(UrlOld), apiKey |-> JStr(<<"old-key">>), timeout |-> JNum(30)])}

ModelsChoices ==
    {JAbsent, JStr(<<"models">>), JObj(EmptyMap),
     Obj({<<"my-model", UserModel>>}),
     Obj({<<ModelA, JStr(<<"x">>)>>}),
     Obj({<<ModelA, JObj([name |-> JStr(<<"Old">>), custom |-> JStr(<<"c">>)])>>,
          <<"my-model", UserModel>>}),
     Obj({<<ModelA, JObj([name |-> JStr(<<"Old">>), limit |-> JNum(1),
                          reasoning |-> JBool(FALSE), variants |-> JStr(<<"mine">>)])>>,
          <<ModelB, JObj([variants |-> JStr(<<"mine">>), temperature |-> JNum(1)])>>})}

ManagedChoices ==
    {JAbsent, JStr(<<"entry">>)}
    \cup {Obj({<<"options", o>>, <<"extra", JStr(<<"kept">>)>>}) : o \in OptionChoices}
    \cup {Obj({<<"models", m>>}) : m \in ModelsChoices}
    \cup {Obj({<<"npm", JStr(<<"other-npm">>)>>,
               <<"options", JObj([baseURL |-> JStr(UrlH), apiKey |-> JStr(<<"old-key">>)])>>,
               <<"models", Obj({<<ModelB, JObj([name |-> JStr(<<"Old">>)])>>})>>})}

GoogleEntry ==
    JObj([options |-> JObj([apiKey |-> JStr(<<"google-key">>)]),
          models |-> Obj({<<"gemini-pro", JObj([name |-> JStr(<<"Gemini Pro">>)])>>,
                          <<"gemini-3-flash", JObj([name |-> JStr(<<"Flash">>)])>>})])

AnthropicEntry ==
    JObj([options |-> JObj([baseURL |-> JStr(<<"h", "/", "v", "1">>), apiKey |-> JStr(<<"anthropic-key">>)]),
          models |-> Obj({<<ModelA, JObj([name |-> JStr(<<"Claude">>)])>>})])

LegacyChoices == {<<JAbsent, JAbsent>>, <<GoogleEntry, JAbsent>>, <<GoogleEntry, AnthropicEntry>>}

ProviderChoices ==
    {JAbsent, JStr(<<"prov">>)}
    \cup {Obj({<<ANTIGRAVITY_PROVIDER_ID, e>>, <<"google", l[1]>>, <<"anthropic", l[2]>>}) :
             e \in ManagedChoices, l \in LegacyChoices}

\* The `options` of a legacy provider entry: none, not an object, empty, without
\* baseURL, with a baseURL that is the proxy's (alone with apiKey, or beside a key
\* of the user), with another baseURL, with a baseURL that is not a string.
LegacyOptionChoices ==
    {JAbsent, JStr(<<"opts">>), JObj(EmptyMap),
     JObj([apiKey |-> JStr(<<"user-key">>)]),
     JObj([baseURL |-> JStr(<<"h", "/", "v", "1">>), apiKey |-> JStr(<<"k">>)]),
     JObj([baseURL |-> JStr(<<"h">>), apiKey |-> JStr(<<"k">>), timeout |-> JNum(30)]),
     JObj([baseURL |-> JStr(UrlOld), apiKey |-> JStr(<<"k">>)]),
     JObj([baseURL |-> JNum(1), apiKey |-> JStr(<<"k">>)])}

LegacyDocuments ==
    {Obj({<<"provider",
            Obj({<<"google", Obj({<<"options", o1>>,
                                  <<"models", Obj({<<ModelB, JObj([name |-> JStr(<<"G">>)])>>})>>})>>,
                 <<"anthropic", Obj({<<"options", o2>>, <<"npm", JStr(<<"user-npm">>)>>})>>})>>}) :
        o1 \in LegacyOptionChoices,
        o2 \in {JAbsent, JObj([baseURL |-> JStr(<<"h">>), apiKey |-> JStr(<<"k">>)])}}

\* Documents whose `$schema` is null, a number or an object.
SchemaDocuments ==
    {Obj({<<"$schema", s>>, <<"theme", JStr(<<"dark">>)>>}) :
        s \in {JNull, JNum(1), JObj([url |-> JStr(<<"user-schema">>)])}}

SeqToSet(ids) == {ids[i] : i \in DOMAIN ids}

\* Documents whose legacy entry has a `models` that is empty, is no object, holds
\* models of the user only, or holds all of them beside one of the user.
LegacyModelsDocuments ==
    {Obj({<<"provider", Obj({<<"google", Obj({<<"models", m>>, <<"npm", JStr(<<"user-npm">>)>>})>>})>>}) :
        m \in {JObj(EmptyMap), JStr(<<"models">>), Obj({<<"my-model", UserModel>>}),
               JObj([id \in SeqToSet(ANTIGRAVITY_MODEL_IDS) \cup {"my-model"} |-> UserModel])}}

Documents ==
    {JStr(<<"root">>), JObj(EmptyMap)}
    \cup SchemaDocuments
    \cup LegacyModelsDocuments
    \cup {Obj({<<"$schema", s>>, <<"theme", JStr(<<"dark">>)>>, <<"provider", p>>}) :
             s \in {JAbsent, JStr(<<"user-schema">>)}, p \in ProviderChoices}
    \cup LegacyDocuments

(***************************************************************************)
(* NormSpec: normalize_opencode_base_url applied to an input string.       *)
(***************************************************************************)
UrlChars == {"h", "/", "v", "1", " "}

RECURSIVE StringsUpTo(_)
StringsUpTo(n) ==
    IF n = 0 THEN {<<>>}
    ELSE LET shorter == StringsUpTo(n - 1)
         IN  shorter \cup {Append(t, c) : t \in {x \in shorter : Len(x) = n - 1}, c \in UrlChars}

UrlSuffixes == {<<>>, <<"/">>, V1, V1 \o <<"/">>, <<"/", "/">>, V1 \o V1}

Padding == {<<>>, <<" ">>}

NormInputs ==
    {l \o b \o x \o r : l \in Padding, b \in StringsUpTo(MaxBaseLen), x \in UrlSuffixes, r \in Padding}

MatchIdle == mIn = <<>> /\ mOut = <<>>

NormIdle == nIn = <<>> /\ nOut = <<>> /\ nDone = FALSE /\ MatchIdle

MergeIdle == orig = JNull /\ prev = JNull /\ config = JNull /\ hist = <<>>

FsIdle ==
    /\ fs = <<>> /\ fsInit = <<>> /\ fsHist = <<>>
    /\ fsSnap = <<>> /\ fsPre = <<>> /\ fsRes = "none" /\ fsArgs = <<>>
    /\ todo = <<>> /\ call = <<>>

NormInit ==
    /\ nIn \in NormInputs /\ nOut = <<>> /\ nDone = FALSE
    /\ MatchIdle /\ MergeIdle /\ FsIdle

Normalize ==
    /\ ~nDone
    /\ nOut' = normalize_opencode_base_url(nIn)
    /\ nDone' = TRUE
    /\ UNCHANGED <<nIn, mIn, mOut, mergeVars, fsVars>>

NormNext == Normalize

NormSpec == NormInit /\ [][NormNext]_vars

(***************************************************************************)
(* MatchSpec: base_url_matches applied to each pair of three strings.      *)
(***************************************************************************)
Authorities == {<<"h">>, <<"g">>, <<"h", "1">>}

MatchBases == Authorities \cup {<<"h", " ">>}

MatchSuffixes == {<<>>, <<"/">>, V1, V1 \o <<"/">>, V1 \o V1}

MatchInputs ==
    {l \o b \o x : l \in Padding, b \in MatchBases, x \in MatchSuffixes}

MatchInit ==
    /\ mIn \in MatchInputs \X MatchInputs \X MatchInputs /\ mOut = <<>>
    /\ nIn = <<>> /\ nOut = <<>> /\ nDone = FALSE
    /\ MergeIdle /\ FsIdle

Match ==
    /\ mOut = <<>>
    /\ mOut' = [i \in DOMAIN mIn |-> [j \in DOMAIN mIn |-> base_url_matches(mIn[i], mIn[j])]]
    /\ UNCHANGED <<mIn, nIn, nOut, nDone, mergeVars, fsVars>>

MatchNext == Match

MatchSpec == MatchInit /\ [][MatchNext]_vars

(***************************************************************************)
(* MergeSpec: apply_sync_to_config and apply_clear_to_config applied, one  *)
(* call after the other, to a document.                                    *)
(***************************************************************************)
MergeInit ==
    /\ orig \in Documents /\ prev = orig /\ config = orig /\ hist = <<>>
    /\ NormIdle /\ FsIdle

ApplySync(e, c, m) ==
    /\ Len(hist) < MaxOps
    /\ config' = apply_sync_to_config(config, e, c, m)
    /\ prev' = config
    /\ hist' = Append(hist, [name |-> "sync", e |-> e, c |-> c, m |-> m, p |-> None, legacy |-> FALSE])
    /\ UNCHANGED <<orig, normVars, fsVars>>

ApplyClear(p, legacy) ==
    /\ Len(hist) < MaxOps
    /\ config' = apply_clear_to_config(config, p, legacy)
    /\ prev' = config
    /\ hist' = Append(hist, [name |-> "clear", e |-> <<>>, c |-> <<>>, m |-> AllModels, p |-> p, legacy |-> legacy])
    /\ UNCHANGED <<orig, normVars, fsVars>>

MergeNext ==
    \/ \E e \in Endpoints, c \in Credentials, m \in Selectors : ApplySync(e, c, m)
    \/ \E x \in ClearInputs : ApplyClear(x[1], x[2])

MergeSpec == MergeInit /\ [][MergeNext]_vars

(***************************************************************************)
(* Reading documents, for the properties below.                            *)
(***************************************************************************)
RECURSIVE HasPath(_, _)
HasPath(v, path) ==
    IF path = <<>> THEN TRUE
    ELSE Has(v, Head(path)) /\ HasPath(Get(v, Head(path)), Tail(path))

RECURSIVE At(_, _)
At(v, path) == IF path = <<>> THEN v ELSE At(Get(v, Head(path)), Tail(path))

ManagedPath == <<"provider", ANTIGRAVITY_PROVIDER_ID>>

\* The key set of the managed models map of a document (empty when there is none).
ManagedModelKeys(d) ==
    IF HasPath(d, ManagedPath \o <<"models">>) /\ is_object(At(d, ManagedPath \o <<"models">>))
    THEN DOMAIN At(d, ManagedPath \o <<"models">>).o
    ELSE {}

\* Equal values under every key of `keys`, present in both documents or in neither.
SameAt(d1, d2, keys) ==
    \A key \in keys : /\ Has(d1, key) <=> Has(d2, key)
                      /\ Has(d1, key) => Get(d1, key) = Get(d2, key)

Last == hist[Len(hist)]

LastIs(name) == hist # <<>> /\ Last.name = name

(***************************************************************************)
(* Properties of MergeSpec.                                                *)
(***************************************************************************)

\* C1: apply_sync_to_config is idempotent: the document a sync returns, from any
\* input document, endpoint, credential and selector, is returned unchanged by a
\* second sync with the same endpoint, credential and selector.
C1_SyncIdempotent ==
    LastIs("sync") => apply_sync_to_config(config, Last.e, Last.c, Last.m) = config

\* A sync that merged the catalog into a models map already holding a catalog id
\* with a user field, and changed the document.
C1_Witness ==
    /\ LastIs("sync")
    /\ HasPath(prev, ManagedPath \o <<"models", ModelA, "custom">>)
    /\ config # prev

\* C2: a sync of an object document leaves every top-level key other than
\* `provider` and `$schema` with an equal value and, when `provider` was an object,
\* every entry of `provider` other than the managed one with an equal value.
C2_SyncFrame ==
    (LastIs("sync") /\ is_object(prev)) =>
        /\ is_object(config)
        /\ \A key \in (DOMAIN prev.o) \ {"provider", "$schema"} :
               Has(config, key) /\ Get(config, key) = Get(prev, key)
        /\ (Has(prev, "provider") /\ is_object(Get(prev, "provider"))) =>
               \A name \in (DOMAIN Get(prev, "provider").o) \ {ANTIGRAVITY_PROVIDER_ID} :
                   /\ HasPath(config, <<"provider", name>>)
                   /\ At(config, <<"provider", name>>) = At(prev, <<"provider", name>>)

\* A sync of a document that held a top-level key of the user and two legacy
\* providers, and that changed the document.
C2_Witness ==
    /\ LastIs("sync")
    /\ Has(prev, "theme")
    /\ HasPath(prev, <<"provider", "google">>)
    /\ HasPath(prev, <<"provider", "anthropic">>)
    /\ config # prev

\* C3: after a sync of any document the managed entry is an object with the fixed
\* npm and name, options.baseURL the normalized endpoint and options.apiKey the
\* credential, and every other key that `options` held is kept.
C3_ManagedShape ==
    LastIs("sync") =>
        /\ HasPath(config, ManagedPath)
        /\ is_object(At(config, ManagedPath))
        /\ HasPath(config, ManagedPath \o <<"npm">>)
        /\ At(config, ManagedPath \o <<"npm">>) = JStr(NpmValue)
        /\ HasPath(config, ManagedPath \o <<"name">>)
        /\ At(config, ManagedPath \o <<"name">>) = JStr(NameValue)
        /\ HasPath(config, ManagedPath \o <<"options", "baseURL">>)
        /\ At(config, ManagedPath \o <<"options", "baseURL">>) = JStr(normalize_opencode_base_url(Last.e))
        /\ HasPath(config, ManagedPath \o <<"options", "apiKey">>)
        /\ At(config, ManagedPath \o <<"options", "apiKey">>) = JStr(Last.c)
        /\ (HasPath(prev, ManagedPath \o <<"options">>) /\ is_object(At(prev, ManagedPath \o <<"options">>))) =>
               \A key \in (DOMAIN At(prev, ManagedPath \o <<"options">>).o) \ {"baseURL", "apiKey"} :
                   /\ HasPath(config, ManagedPath \o <<"options", key>>)
                   /\ At(config, ManagedPath \o <<"options", key>>) = At(prev, ManagedPath \o <<"options", key>>)

\* C4: after a sync with the selector of all catalog entries, on any document, the
\* managed `models` is an object holding every catalog id with the catalog's name,
\* limit and modalities.
C4_AllCatalogModels ==
    (LastIs("sync") /\ ~Last.m.some) =>
        /\ HasPath(config, ManagedPath \o <<"models">>)
        /\ is_object(At(config, ManagedPath \o <<"models">>))
        /\ \A i \in DOMAIN build_model_catalog :
               LET def == build_model_catalog[i]
                   path == ManagedPath \o <<"models", def.id>>
               IN  /\ HasPath(config, path)
                   /\ SameAt(At(config, path), build_model_json(def), {"name", "limit", "modalities"})

\* C5, as claimed: a sync with all catalog entries followed by a clear, on an object
\* document, leaves no managed provider key and a document equal to the original
\* at every path outside that key, `$schema` and `provider` included.
C5_ClearUndoesSync ==
    (/\ Len(hist) = 2 /\ hist[1].name = "sync" /\ ~hist[1].m.some /\ hist[2].name = "clear"
     /\ is_object(orig)) =>
        /\ ~HasPath(config, ManagedPath)
        /\ config = (IF HasPath(orig, ManagedPath)
                     THEN Insert(orig, "provider", Remove(Get(orig, "provider"), ANTIGRAVITY_PROVIDER_ID))
                     ELSE orig)

\* C5, amended: a sync with all catalog entries followed by a clear that runs no
\* legacy cleanup, on an object document, leaves no managed provider key; every
\* top-level key other than `$schema` and `provider` is as in the original;
\* `$schema` is the original's when it had one and the default otherwise;
\* `provider` is the original's without the managed key when the original's was an
\* object holding another entry, and is absent otherwise.
C5_ClearUndoesSyncAmended ==
    (/\ Len(hist) = 2 /\ hist[1].name = "sync" /\ ~hist[1].m.some /\ hist[2].name = "clear"
     /\ ~(hist[2].legacy /\ hist[2].p.some)
     /\ is_object(orig)) =>
        /\ is_object(config)
        /\ ~HasPath(config, ManagedPath)
        /\ SameAt(config, orig, ((DOMAIN orig.o) \cup (DOMAIN config.o)) \ {"$schema", "provider"})
        /\ Has(config, "$schema")
        /\ Get(config, "$schema") = (IF Has(orig, "$schema") THEN Get(orig, "$schema") ELSE JStr(SchemaUrl))
        /\ IF /\ Has(orig, "provider") /\ is_object(Get(orig, "provider"))
              /\ (DOMAIN Get(orig, "provider").o) \ {ANTIGRAVITY_PROVIDER_ID} # {}
           THEN /\ Has(config, "provider")
                /\ Get(config, "provider") = Remove(Get(orig, "provider"), ANTIGRAVITY_PROVIDER_ID)
           ELSE ~Has(config, "provider")

\* A sync of all catalog entries then a clear, from an object document that held
\* neither `$schema` nor another provider.
C5_Witness ==
    /\ Len(hist) = 2 /\ hist[1].name = "sync" /\ ~hist[1].m.some /\ hist[2].name = "clear"
    /\ ~(hist[2].legacy /\ hist[2].p.some)
    /\ is_object(orig) /\ ~Has(orig, "$schema")
    /\ HasPath(orig, ManagedPath \o <<"models">>)
    /\ ~HasPath(orig, <<"provider", "google">>)
    /\ ~Has(config, "provider")

\* The documents whose managed models value, if the merge reaches one, is a map.
ManagedModelsIsMapOrNone(d) ==
    HasPath(d, ManagedPath \o <<"models">>) => is_object(At(d, ManagedPath \o <<"models">>))

AllSyncs == \A i \in DOMAIN hist : hist[i].name = "sync"

SelectedIds == UNION {SeqToSet(ids_to_sync(hist[i].m)) : i \in DOMAIN hist}

\* C6: filtered sync is additive: after any sequence of syncs from a document whose
\* managed models map has key set K0 the key set is K0 with the selected catalog
\* ids; no sync removes a model id and no id outside the catalog is added.
C6_FilteredSyncAdditive ==
    (AllSyncs /\ ManagedModelsIsMapOrNone(orig)) =>
        /\ ManagedModelKeys(config) = ManagedModelKeys(orig) \cup (SelectedIds \cap CatalogIds)
        /\ ManagedModelKeys(prev) \subseteq ManagedModelKeys(config)

\* The syncs of {A, B} and then of {A, B, C}, from the empty document: exactly
\* {A, B, C}.
C6_Witness ==
    /\ orig = JObj(EmptyMap)
    /\ Len(hist) = 2
    /\ hist[1].name = "sync" /\ hist[1].m = OnlyModels(<<ModelA, ModelB>>)
    /\ hist[2].name = "sync" /\ hist[2].m = OnlyModels(<<ModelA, ModelB, ModelC>>)
    /\ ManagedModelKeys(config) = {ModelA, ModelB, ModelC}
    /\ ManagedModelKeys(prev) = {ModelA, ModelB}

(***************************************************************************)
(* Properties of NormSpec.                                                 *)
(***************************************************************************)
Spaces(t) == \A i \in DOMAIN t : t[i] = " "

Slashes(t) == \A i \in DOMAIN t : t[i] = "/"

\* A base string: no surrounding whitespace, no final "/" and no final "/v1".
IsBase(b) ==
    /\ b # <<>> => (b[1] # " " /\ b[Len(b)] # " ")
    /\ ~EndsWith(b, <<"/">>)
    /\ ~EndsWith(b, V1)

\* C7: for every base string b, the input made of b, b+"/", b+"/v1" or b+"/v1/",
\* with or without whitespace around it, is normalized to b+"/v1"; and an input
\* that ends in "/v1" once its whitespace and final slashes are cut is returned as
\* cut, with no second "/v1".
C7_Normalize ==
    nDone =>
        /\ \A i \in 1..(Len(nIn) + 1) : \A j \in (i - 1)..Len(nIn) :
               \A m \in j..Len(nIn) :
                   (/\ Spaces(SubSeq(nIn, 1, i - 1))
                    /\ IsBase(SubSeq(nIn, i, j))
                    /\ SubSeq(nIn, j + 1, m) \in {<<>>, <<"/">>, V1, V1 \o <<"/">>}
                    /\ Spaces(SubSeq(nIn, m + 1, Len(nIn))))
                   => nOut = SubSeq(nIn, i, j) \o V1
        /\ \A i \in 1..(Len(nIn) + 1) : \A j \in (i - 1)..Len(nIn) :
               \A m \in j..Len(nIn) :
                   (/\ Spaces(SubSeq(nIn, 1, i - 1))
                    /\ EndsWith(SubSeq(nIn, i, j), V1)
                    /\ nIn[i] # " "
                    /\ Slashes(SubSeq(nIn, j + 1, m))
                    /\ Spaces(SubSeq(nIn, m + 1, Len(nIn))))
                   => nOut = SubSeq(nIn, i, j)

\* The input " h/v1/ " has been normalized to "h/v1".
C7_Witness ==
    /\ nDone
    /\ nIn = <<" ", "h", "/", "v", "1", "/", " ">>
    /\ nOut = <<"h", "/", "v", "1">>

(***************************************************************************)
(* Spec: sync, clear and restore called one after the other on the files.  *)
(* fsInit is the initial content of the files, fsPre their content before  *)
(* the last call, fsRes its result, fsHist the calls made (name, result,   *)
(* and whether some target had a backup under both suffixes before it),    *)
(* fsSnap the content of the first current-suffix backup of each target    *)
(* seen since the last restore.                                            *)
(***************************************************************************)
UserDocument ==
    Obj({<<"theme", JStr(<<"dark">>)>>, <<"provider", Obj({<<"google", GoogleEntry>>})>>})

OldBackupDocument == JObj([theme |-> JStr(<<"light">>)])

AppAccountA ==
    [email |-> <<"a@x">>, refresh_token |-> <<"rt-a">>, project_id |-> Some(<<"proj-a">>),
     last_used |-> 5, disabled |-> FALSE, proxy_disabled |-> FALSE]

AppAccountB ==
    [email |-> <<"b@x">>, refresh_token |-> <<"rt-b">>, project_id |-> None,
     last_used |-> 7, disabled |-> FALSE, proxy_disabled |-> FALSE]

AppAccountC ==
    [email |-> <<"c@x">>, refresh_token |-> <<"rt-c">>, project_id |-> None,
     last_used |-> 8, disabled |-> TRUE, proxy_disabled |-> FALSE]

ListingFailed == [ok |-> FALSE, accounts |-> <<>>]

Listed(accounts) == [ok |-> TRUE, accounts |-> accounts]

\* sync_accounts and, with it, what list_accounts() returns.
AccountInputs ==
    {<<FALSE, ListingFailed>>, <<TRUE, ListingFailed>>, <<TRUE, Listed(<<AppAccountA>>)>>,
     <<TRUE, Listed(<<AppAccountB, AppAccountC, AppAccountA>>)>>}

ExistingAccountsDocument ==
    JObj([version |-> JNum(2),
          accounts |-> JArr(<<JObj([email |-> JStr(<<"a@x">>), refreshToken |-> JStr(<<"rt-a">>),
                                    addedAt |-> JNum(1), lastUsed |-> JNum(9),
                                    coolingDownUntil |-> JNum(50)])>>),
          activeIndex |-> JNum(4),
          activeIndexByFamily |-> JObj([claude |-> JNum(0)])])

OldAccountsDocument ==
    JObj([version |-> JNum(1), accounts |-> JArr(<<>>), activeIndex |-> JNum(0),
          activeIndexByFamily |-> JObj(EmptyMap)])

Clock == {100}

FsSelectors == {OnlyModels(<<ModelA>>)}

FsClearInputs == {<<None, FALSE>>, <<Some(UrlH), TRUE>>}

InitialFiles ==
    {[p \in Paths |->
         CASE p = config_path -> c
           [] p = accounts_path -> a
           [] p = with_suffix(config_path, OLD_BACKUP_SUFFIX) -> co
           [] p = with_suffix(accounts_path, OLD_BACKUP_SUFFIX) -> ao
           [] OTHER -> Absent] :
        c \in {Absent, Garbage, UserText(UserDocument)},
        a \in {Absent, Garbage, UserText(ExistingAccountsDocument)},
        co \in {Absent, UserText(OldBackupDocument)},
        ao \in {Absent, UserText(OldAccountsDocument)}}

\* The arguments recorded for a call that takes no account listing.
NoArgs == [sync_accounts |-> FALSE, listing |-> ListingFailed, now |-> 0]

HasBothBackups(files) ==
    \E f \in Targets : exists(files, <<f, BACKUP_SUFFIX>>) /\ exists(files, <<f, OLD_BACKUP_SUFFIX>>)

Init ==
    /\ fs \in InitialFiles
    /\ fsInit = fs /\ fsPre = fs /\ fsHist = <<>> /\ fsRes = "none"
    /\ fsSnap = [f \in Targets |-> Absent]
    /\ fsArgs = NoArgs
    /\ todo = <<>> /\ call = <<>>
    /\ NormIdle /\ MergeIdle

\* The call `name` that was given args and returned r = [fs, res].
Called(name, args, r) ==
    /\ fsArgs' = args
    /\ fs' = r.fs
    /\ fsRes' = r.res
    /\ fsPre' = fs
    /\ fsHist' = Append(fsHist, [name |-> name, res |-> r.res, both |-> HasBothBackups(fs),
                                  accounts |-> args.sync_accounts])
    /\ fsSnap' = [f \in Targets |->
                     IF name = "restore" THEN r.fs[<<f, BACKUP_SUFFIX>>]
                     ELSE IF fsSnap[f] = Absent THEN r.fs[<<f, BACKUP_SUFFIX>>]
                     ELSE fsSnap[f]]
    /\ UNCHANGED <<fsInit, todo, call, normVars, mergeVars>>

Sync(e, c, m, acc, now) ==
    /\ Len(fsHist) < MaxFsOps
    /\ \E r \in {sync_opencode_config(fs, e, c, acc[1], m, acc[2], now)} :
           Called("sync", [sync_accounts |-> acc[1], listing |-> acc[2], now |-> now], r)

Clear(p, legacy) ==
    /\ Len(fsHist) < MaxFsOps
    /\ \E r \in {clear_opencode_config(fs, p, legacy)} : Called("clear", NoArgs, r)

Restore ==
    /\ Len(fsHist) < MaxFsOps
    /\ \E r \in {restore_opencode_config(fs)} : Called("restore", NoArgs, r)

Next ==
    \/ \E e \in {UrlH}, c \in Credentials, m \in FsSelectors, acc \in AccountInputs, now \in Clock :
           Sync(e, c, m, acc, now)
    \/ \E x \in FsClearInputs : Clear(x[1], x[2])
    \/ Restore

Spec == Init /\ [][Next]_vars

(***************************************************************************)
(* Properties of Spec.                                                     *)
(***************************************************************************)
Calls == Len(fsHist)

LastCalls(names) ==
    /\ Calls >= Len(names)
    /\ \A i \in DOMAIN names : fsHist[Calls - Len(names) + i].name = names[i]

C9_BackupRestoreRoundTrip ==
    (/\ Calls >= 2
     /\ fsHist[Calls].name = "restore"
     /\ \A i \in 1..(Calls - 1) : fsHist[i].name = "sync") =>
        \A f \in Targets :
            (/\ exists(fsInit, <<f, "">>)
             /\ ~exists(fsInit, <<f, BACKUP_SUFFIX>>)
             /\ ~exists(fsInit, <<f, OLD_BACKUP_SUFFIX>>)) =>
                fs[<<f, "">>] = fsInit[<<f, "">>]

\* Two syncs that rewrote both files, then a restore that brought both back.
C9_Witness ==
    /\ Calls = 3 /\ LastCalls(<<"sync", "sync", "restore">>)
    /\ fsRes = "ok"
    /\ \A f \in Targets :
           /\ fsInit[<<f, "">>].fmt = "user"
           /\ ~exists(fsInit, <<f, OLD_BACKUP_SUFFIX>>)
           /\ fsPre[<<f, "">>] # fsInit[<<f, "">>]
           /\ fs[<<f, "">>] = fsInit[<<f, "">>]

\* C10, as claimed: after a restore that returned Ok, a second restore with no
\* sync or clear in between returns the error "No backup files found", whatever
\* backups, current-suffix and legacy-suffix, there were.
C10_RestoreNotRepeatable ==
    (LastCalls(<<"restore", "restore">>) /\ fsHist[Calls - 1].res = "ok") => fsRes = "err"

\* C10, amended: after a restore that returned Ok, a second restore with no sync or
\* clear in between returns the error and changes no file, unless some target had
\* both a current-suffix and a legacy-suffix backup before the first restore: then
\* the legacy backup was left in place, and the second restore returns Ok.
C10_RestoreNotRepeatableAmended ==
    (LastCalls(<<"restore", "restore">>) /\ fsHist[Calls - 1].res = "ok") =>
        /\ fsRes = "err" <=> ~fsHist[Calls - 1].both
        /\ fsRes = "err" => fs = fsPre
        /\ ~HasBothBackups(fsPre)
        /\ \A p \in Paths : p[2] # "" => ~exists(fs, p)

\* A sync, a restore that returned Ok and a second restore that returned the error.
C10_Witness ==
    /\ Calls = 3 /\ LastCalls(<<"sync", "restore", "restore">>)
    /\ fsHist[2].res = "ok"
    /\ fsRes = "err"

(***************************************************************************)
(* Properties of MergeSpec: the legacy cleanup of apply_clear_to_config.   *)
(***************************************************************************)
LegacyNames == {"anthropic", "google"}

OptionsPath(name) == <<"provider", name, "options">>

\* The last call was a clear with clear_legacy and a proxy endpoint.
LegacyClear == LastIs("clear") /\ Last.legacy /\ Last.p.some

\* The options of the legacy provider hold a baseURL that normalizes to the
\* normalized endpoint.
BaseUrlIs(d, name, e) ==
    /\ HasPath(d, OptionsPath(name) \o <<"baseURL">>)
    /\ At(d, OptionsPath(name) \o <<"baseURL">>).k = "str"
    /\ normalize_opencode_base_url(At(d, OptionsPath(name) \o <<"baseURL">>).s)
           = normalize_opencode_base_url(e)

\* C14, as claimed: a clear with legacy cleanup and an endpoint that the baseURL of
\* a legacy provider normalizes to leaves that provider without `options`, whatever
\* other keys `options` held.
C14_LegacyOptionsStripped ==
    LegacyClear =>
        \A name \in LegacyNames :
            BaseUrlIs(prev, name, Last.p.v) => ~HasPath(config, OptionsPath(name))

\* C14, amended: such a clear removes baseURL and apiKey from the `options` of that
\* provider and keeps every other key of `options` with its value; the `options`
\* key is absent afterwards exactly when no other key was held.
C14_LegacyOptionsStrippedAmended ==
    LegacyClear =>
        \A name \in LegacyNames :
            BaseUrlIs(prev, name, Last.p.v) =>
                LET old == At(prev, OptionsPath(name))
                    rest == (DOMAIN old.o) \ {"baseURL", "apiKey"}
                IN  /\ HasPath(config, OptionsPath(name)) <=> rest # {}
                    /\ rest # {} =>
                           /\ is_object(At(config, OptionsPath(name)))
                           /\ DOMAIN At(config, OptionsPath(name)).o = rest
                           /\ SameAt(old, At(config, OptionsPath(name)), rest)

\* A clear that found the proxy's baseURL and an apiKey, and nothing else, in the
\* options of google and took `options` away, leaving the entry.
C14_Witness ==
    /\ LegacyClear
    /\ BaseUrlIs(prev, "google", Last.p.v)
    /\ HasPath(prev, OptionsPath("google") \o <<"apiKey">>)
    /\ HasPath(config, <<"provider", "google">>)
    /\ ~HasPath(config, OptionsPath("google"))

\* C15: a clear with legacy cleanup and an endpoint that the baseURL of a legacy
\* provider does not normalize to (another URL, a baseURL that is no string, no
\* baseURL, an empty `options` object) leaves the `options` of that provider
\* present and identical.
C15_LegacyOptionsKept ==
    LegacyClear =>
        \A name \in LegacyNames :
            (HasPath(prev, OptionsPath(name)) /\ ~BaseUrlIs(prev, name, Last.p.v)) =>
                /\ HasPath(config, OptionsPath(name))
                /\ At(config, OptionsPath(name)) = At(prev, OptionsPath(name))

\* C15 holds of every `options` value but the empty object.
C15_LegacyOptionsKeptUnlessEmpty ==
    LegacyClear =>
        \A name \in LegacyNames :
            (/\ HasPath(prev, OptionsPath(name)) /\ ~BaseUrlIs(prev, name, Last.p.v)
             /\ At(prev, OptionsPath(name)) # JObj(EmptyMap)) =>
                /\ HasPath(config, OptionsPath(name))
                /\ At(config, OptionsPath(name)) = At(prev, OptionsPath(name))

\* C16: a clear with clear_legacy and no proxy endpoint leaves every provider entry
\* other than the managed one as it was.
C16_NoEndpointNoCleanup ==
    (LastIs("clear") /\ Last.legacy /\ ~Last.p.some /\ HasPath(prev, <<"provider">>)
     /\ is_object(Get(prev, "provider"))) =>
        \A name \in (DOMAIN Get(prev, "provider").o) \ {ANTIGRAVITY_PROVIDER_ID} :
            /\ HasPath(config, <<"provider", name>>)
            /\ At(config, <<"provider", name>>) = At(prev, <<"provider", name>>)

\* Such a clear on a document whose anthropic entry holds a catalog model id and a
\* baseURL and apiKey, which a cleanup for that baseURL would have removed.
C16_Witness ==
    /\ LastIs("clear") /\ Last.legacy /\ ~Last.p.some
    /\ HasPath(prev, ManagedPath)
    /\ BaseUrlIs(prev, "anthropic", UrlH)
    /\ HasPath(prev, <<"provider", "anthropic", "models", ModelA>>)
    /\ At(config, <<"provider", "anthropic">>) = At(prev, <<"provider", "anthropic">>)
    /\ ~HasPath(config, ManagedPath)

(***************************************************************************)
(* Properties of Spec: a config file that is not JSON.                     *)
(***************************************************************************)
\* The last call was a sync that found a config file that cannot be read as JSON.
SyncOfBrokenConfig ==
    /\ Calls >= 1 /\ fsHist[Calls].name = "sync"
    /\ fsPre[config_path] = Garbage

\* C19: parse errors self-heal on sync: a sync that finds a config file that is
\* not valid JSON does not fail for it (it fails only when the accounts listing
\* fails, after the config is written); the live config file is then a JSON object
\* with the managed provider entry, the one a sync of the empty document gives, and
\* the broken content is in the backup when there was no backup before.
C19_ParseErrorSelfHeals ==
    SyncOfBrokenConfig =>
        /\ fsRes = "err" => (fsArgs.sync_accounts /\ ~fsArgs.listing.ok)
        /\ from_str(fs[config_path]).some
        /\ is_object(fs[config_path].doc)
        /\ HasPath(fs[config_path].doc, ManagedPath)
        /\ \E e \in {UrlH}, c \in Credentials, m \in FsSelectors :
               fs[config_path].doc = apply_sync_to_config(JObj(EmptyMap), e, c, m)
        /\ fs[with_suffix(config_path, BACKUP_SUFFIX)] =
               IF exists(fsPre, with_suffix(config_path, BACKUP_SUFFIX))
               THEN fsPre[with_suffix(config_path, BACKUP_SUFFIX)]
               ELSE Garbage

\* A first sync that returned Ok on a broken config file with no backup.
C19_Witness ==
    /\ SyncOfBrokenConfig /\ Calls = 1
    /\ fsRes = "ok"
    /\ fs[with_suffix(config_path, BACKUP_SUFFIX)] = Garbage
    /\ HasPath(fs[config_path].doc, ManagedPath \o <<"models", ModelA>>)

(***************************************************************************)
(* AccountsSpec: sync_accounts_file called, one call after the other, on   *)
(* an accounts file, with what list_accounts() returns at each call.       *)
(***************************************************************************)
\* A JSON number that is no integer: as_i64() is None, and no i64 field takes it.
JFloat(t) == [k |-> "float", s |-> t, n |-> 0, o |-> EmptyMap, a |-> <<>>]

\* The i64 hi * 2^32 + lo that is no i32: n is its low word, read as an i32.
JWide(hi, lo) == [k |-> "num", s |-> <<hi>>, n |-> lo, o |-> EmptyMap, a |-> <<>>]

\* An integer above i64::MAX: serde_json holds it as a u64, and as_i64() is None.
JU64(t) == [k |-> "u64", s |-> t, n |-> 0, o |-> EmptyMap, a |-> <<>>]

\* The record of a@x, with every field the plugin owns and a field it does not know.
RecA ==
    JObj([email |-> JStr(<<"a@x">>), refreshToken |-> JStr(<<"rt-a">>),
          projectId |-> JStr(<<"old-proj">>), addedAt |-> JNum(1), lastUsed |-> JNum(9),
          rateLimitResetTimes |-> JObj([claude |-> JNum(77)]),
          managedProjectId |-> JStr(<<"mp">>), enabled |-> JBool(FALSE),
          lastSwitchReason |-> JStr(<<"rotation">>), coolingDownUntil |-> JNum(50),
          cooldownReason |-> JStr(<<"rate-limit">>),
          fingerprint |-> JObj([ua |-> JStr(<<"agent">>)]),
          cachedQuota |-> JObj([left |-> JNum(3)]), cachedQuotaUpdatedAt |-> JNum(60),
          fingerprintHistory |-> JArr(<<JStr(<<"f0">>)>>), note |-> JStr(<<"mine">>)])

\* A second record with the refresh token of RecA, and no email.
RecA2 ==
    JObj([refreshToken |-> JStr(<<"rt-a">>), addedAt |-> JNum(11), lastUsed |-> JNum(2),
          coolingDownUntil |-> JNum(99)])

\* The record of b@x under a refresh token that has been replaced since.
RecB ==
    JObj([email |-> JStr(<<"b@x">>), refreshToken |-> JStr(<<"rt-b-old">>),
          addedAt |-> JNum(2), lastUsed |-> JNum(3), enabled |-> JNull,
          coolingDownUntil |-> JNum(40)])

RecC ==
    JObj([email |-> JStr(<<"c@x">>), refreshToken |-> JStr(<<"rt-c">>),
          addedAt |-> JNum(5), lastUsed |-> JNum(6), coolingDownUntil |-> JNum(70)])

RecD ==
    JObj([email |-> JStr(<<"d@x">>), refreshToken |-> JStr(<<"rt-d">>),
          addedAt |-> JNum(6), lastUsed |-> JNum(6)])

\* A record that is no PluginAccount: addedAt is missing.
RecBad == JObj([email |-> JStr(<<"a@x">>), refreshToken |-> JStr(<<"rt-a">>), lastUsed |-> JNum(4)])

ExistingAccountLists ==
    {JStr(<<"accounts">>), JArr(<<>>), JArr(<<RecA>>), JArr(<<RecA, RecC, RecD, RecB>>),
     JArr(<<RecA2, RecA, RecBad>>), JArr(<<RecA, RecA2>>)}

\* 4294967296 and -4294967295 are i64 and no i32; 9223372036854775808 is no i64.
ExistingIndices ==
    {JAbsent, JNum(-3), JNum(0), JNum(1), JNum(7), JStr(<<"2">>), JFloat(<<"1.5">>),
     JWide(1, 0), JWide(-1, 1), JU64(<<"9223372036854775808">>)}

ExistingFamilies ==
    {JAbsent, JStr(<<"families">>),
     JObj([claude |-> JNum(5), gemini |-> JNum(-1), other |-> JNum(9),
           text |-> JStr(<<"1">>), frac |-> JFloat(<<"0.5">>)]),
     JObj([gemini |-> JWide(1, 1)]),
     JObj([claude |-> JNum(1), extra |-> JNum(4)])}

\* Every activeIndex with no activeIndexByFamily, and every activeIndexByFamily
\* with an activeIndex in and out of range.
ExistingIndexing ==
    (ExistingIndices \X {JAbsent}) \cup ({JNum(0), JNum(7)} \X ExistingFamilies)

ExistingAccountsFiles ==
    {Absent, Garbage, UserText(JArr(<<>>))}
    \cup {UserText(Obj({<<"version", JNum(2)>>, <<"accounts", l>>, <<"activeIndex", x[1]>>,
                        <<"activeIndexByFamily", x[2]>>})) :
             l \in ExistingAccountLists, x \in ExistingIndexing}

AppAccountA2 == [AppAccountA EXCEPT !.last_used = 20]

AppAccountD ==
    [email |-> <<"d@x">>, refresh_token |-> <<"rt-d">>, project_id |-> None,
     last_used |-> 9, disabled |-> FALSE, proxy_disabled |-> TRUE]

\* An account with the refresh token of RecA and the email of RecC.
AppAccountE ==
    [email |-> <<"c@x">>, refresh_token |-> <<"rt-a">>, project_id |-> None,
     last_used |-> 4, disabled |-> FALSE, proxy_disabled |-> FALSE]

\* The account a@x once its refresh token is the one b@x had.
AppAccountF ==
    [email |-> <<"a@x">>, refresh_token |-> <<"rt-b">>, project_id |-> None,
     last_used |-> 6, disabled |-> FALSE, proxy_disabled |-> FALSE]

Listings ==
    {ListingFailed, Listed(<<>>), Listed(<<AppAccountA>>), Listed(<<AppAccountC, AppAccountD>>),
     Listed(<<AppAccountB, AppAccountC, AppAccountA2>>),
     Listed(<<AppAccountA, AppAccountD, AppAccountB>>),
     Listed(<<AppAccountE, AppAccountB>>), Listed(<<AppAccountF>>),
     Listed(<<AppAccountE, AppAccountF, AppAccountB>>)}

\* chrono::Utc::now().timestamp_millis() at the calls of a behaviour.
AccountsClock == {100, 200}

AccountsInit ==
    /\ fs \in {[p \in Paths |-> IF p = accounts_path THEN a ELSE Absent] :
                  a \in ExistingAccountsFiles}
    /\ fsInit = fs /\ fsPre = fs /\ fsHist = <<>> /\ fsRes = "none"
    /\ fsSnap = [f \in Targets |-> Absent]
    /\ fsArgs = NoArgs
    /\ todo = <<>> /\ call = <<>>
    /\ NormIdle /\ MergeIdle

\* The listing of the last call that wrote the accounts file, if there was one.
LastWritten ==
    IF Len(fsHist) = 0 THEN ListingFailed
    ELSE IF fsRes = "ok" THEN fsArgs.listing
    ELSE fsArgs.seen

\* The clock of that call.
LastWrittenAt ==
    IF Len(fsHist) = 0 THEN 0
    ELSE IF fsRes = "ok" THEN fsArgs.now
    ELSE fsArgs.seenAt

\* The call records, with its arguments, the listing the file it finds was written from.
SyncAccounts(listing, now) ==
    /\ Len(fsHist) < MaxSyncs
    /\ \E r \in {sync_accounts_file(fs, accounts_path, listing, now)} :
           Called("accounts", [sync_accounts |-> TRUE, listing |-> listing, now |-> now,
                               seen |-> LastWritten, seenAt |-> LastWrittenAt], r)

AccountsNext == \E listing \in Listings, now \in AccountsClock : SyncAccounts(listing, now)

AccountsSpec == AccountsInit /\ [][AccountsNext]_vars

(***************************************************************************)
(* Properties of AccountsSpec.                                             *)
(***************************************************************************)
\* The last call wrote the accounts file.
Written == Calls >= 1 /\ fsHist[Calls].name = "accounts" /\ fsRes = "ok"

OutFile == fs[accounts_path].doc

OutAccounts == Get(OutFile, "accounts").a

\* The entries of `accounts` in the file the last call found, as JSON values.
PrevRecords ==
    LET json == from_str(fsPre[accounts_path])
    IN  IF json.some /\ Has(json.v, "accounts") /\ Get(json.v, "accounts").k = "arr"
        THEN Get(json.v, "accounts").a ELSE <<>>

\* An optional field of a record: a key that is missing or null is no value.
Field(rec, key) == IF Has(rec, key) /\ Get(rec, key).k # "null" THEN Get(rec, key) ELSE JAbsent

OwnedFields ==
    {"coolingDownUntil", "cooldownReason", "rateLimitResetTimes", "managedProjectId", "enabled",
     "lastSwitchReason", "fingerprint", "cachedQuota", "cachedQuotaUpdatedAt", "fingerprintHistory"}

Max(x, y) == IF x > y THEN x ELSE y

IsEnabled(acc) == ~acc.disabled /\ ~acc.proxy_disabled

\* The entry of the existing file deserializes as a PluginAccount with the token.
RecordOf(x, token) == plugin_account_ok(x) /\ Get(x, "refreshToken") = JStr(token)

\* The written record is the one of acc: it has its refresh token and its email.
WrittenFor(out, acc) ==
    /\ Get(out, "refreshToken") = JStr(acc.refresh_token)
    /\ Get(out, "email") = JStr(acc.email)

\* The written records of acc are there, and each holds the state of the existing
\* record x and the identity of acc.
Inherits(acc, x) ==
    /\ \E n \in DOMAIN OutAccounts : WrittenFor(OutAccounts[n], acc)
    /\ \A n \in DOMAIN OutAccounts :
           LET out == OutAccounts[n]
           IN  WrittenFor(out, acc) =>
                   /\ \A key \in OwnedFields \cup {"addedAt"} : Field(out, key) = Field(x, key)
                   /\ Field(out, "lastUsed") = JNum(Max(Get(x, "lastUsed").n, acc.last_used))
                   /\ Field(out, "email") = JStr(acc.email)
                   /\ Field(out, "projectId") =
                          IF acc.project_id.some THEN JStr(acc.project_id.v) ELSE JAbsent

\* C12, as claimed: when an enabled account of the application has the refresh
\* token of an existing record, the written record has that record's
\* coolingDownUntil, cooldownReason, rateLimitResetTimes, managedProjectId, enabled,
\* lastSwitchReason, fingerprint, cachedQuota, cachedQuotaUpdatedAt,
\* fingerprintHistory and addedAt, lastUsed the larger of the two, and email,
\* refreshToken and projectId of the application's account.
C12_StatePreserved ==
    Written =>
        \A i \in DOMAIN fsArgs.listing.accounts :
            LET acc == fsArgs.listing.accounts[i]
            IN  IsEnabled(acc) =>
                    \A j \in DOMAIN PrevRecords :
                        RecordOf(PrevRecords[j], acc.refresh_token) => Inherits(acc, PrevRecords[j])

\* C12, amended: the same of the existing record that is the last, in the order of
\* the file, of the records with that refresh token.
C12_StatePreservedAmended ==
    Written =>
        \A i \in DOMAIN fsArgs.listing.accounts :
            LET acc == fsArgs.listing.accounts[i]
            IN  IsEnabled(acc) =>
                    \A j \in DOMAIN PrevRecords :
                        (/\ RecordOf(PrevRecords[j], acc.refresh_token)
                         /\ \A n \in (j + 1)..Len(PrevRecords) :
                                ~RecordOf(PrevRecords[n], acc.refresh_token))
                        => Inherits(acc, PrevRecords[j])

\* The record of a@x, cooling down until 50 and last used at 9, met the account
\* of the application with the same refresh token, last used at 20.
C12_Witness ==
    /\ Written
    /\ \E i \in DOMAIN fsArgs.listing.accounts : fsArgs.listing.accounts[i] = AppAccountA2
    /\ \E j \in DOMAIN PrevRecords : PrevRecords[j] = RecA
    /\ \A j \in DOMAIN PrevRecords : PrevRecords[j] # RecA2
    /\ \E n \in DOMAIN OutAccounts :
           /\ Get(OutAccounts[n], "refreshToken") = JStr(<<"rt-a">>)
           /\ Get(OutAccounts[n], "coolingDownUntil") = JNum(50)
           /\ Get(OutAccounts[n], "lastUsed") = JNum(20)
           /\ Get(OutAccounts[n], "projectId") = JStr(<<"proj-a">>)

\* The index is in [0, count - 1], or is 0 when there is no account.
InRange(v, count) ==
    /\ v.k = "num"
    /\ IF count = 0 THEN v.n = 0 ELSE 0 <= v.n /\ v.n <= count - 1

\* C13: in every accounts file written, activeIndex and every value of
\* activeIndexByFamily lie in [0, len(accounts) - 1], or are 0 when accounts is
\* empty, whatever the existing file held.
C13_IndicesClamped ==
    Written =>
        /\ InRange(Get(OutFile, "activeIndex"), Len(OutAccounts))
        /\ is_object(Get(OutFile, "activeIndexByFamily"))
        /\ \A family \in DOMAIN Get(OutFile, "activeIndexByFamily").o :
               InRange(Get(Get(OutFile, "activeIndexByFamily"), family), Len(OutAccounts))

\* A file with activeIndex 7 and family indices 5, -1 and 9 rewritten with two
\* accounts: the indices are 1, 1, 0 and 1.
C13_Witness ==
    /\ Written /\ Calls = 1
    /\ HasPath(fsPre[accounts_path].doc, <<"activeIndexByFamily", "other">>)
    /\ Field(fsPre[accounts_path].doc, "activeIndex") = JNum(7)
    /\ Len(OutAccounts) = 2
    /\ Get(OutFile, "activeIndex") = JNum(1)
    /\ Get(OutFile, "activeIndexByFamily") =
           JObj([claude |-> JNum(1), gemini |-> JNum(0), other |-> JNum(1)])

RECURSIVE EnabledOf(_)
EnabledOf(accounts) ==
    IF accounts = <<>> THEN <<>>
    ELSE IF IsEnabled(Head(accounts)) THEN <<Head(accounts)>> \o EnabledOf(Tail(accounts))
    ELSE EnabledOf(Tail(accounts))

\* C20: the accounts written are the accounts of the application that neither
\* flag disables, one record each, in the order of the application's list; a
\* disabled account is not among them, whatever record the existing file had for it.
C20_EnabledSubsequence ==
    Written =>
        LET enabled == EnabledOf(fsArgs.listing.accounts)
        IN  /\ Len(OutAccounts) = Len(enabled)
            /\ \A n \in DOMAIN enabled :
                   /\ Get(OutAccounts[n], "refreshToken") = JStr(enabled[n].refresh_token)
                   /\ Get(OutAccounts[n], "email") = JStr(enabled[n].email)
            /\ \A i \in DOMAIN fsArgs.listing.accounts : \A n \in DOMAIN OutAccounts :
                   ~IsEnabled(fsArgs.listing.accounts[i]) =>
                       /\ Get(OutAccounts[n], "refreshToken")
                              # JStr(fsArgs.listing.accounts[i].refresh_token)
                       /\ Get(OutAccounts[n], "email") # JStr(fsArgs.listing.accounts[i].email)

\* The file held a, c, d, b; the application lists a, d (disabled for the proxy)
\* and b: the file written holds a and b, and the record of d is gone.
C20_Witness ==
    /\ Written
    /\ Field(fsPre[accounts_path].doc, "accounts") = JArr(<<RecA, RecC, RecD, RecB>>)
    /\ fsArgs.listing = Listed(<<AppAccountA, AppAccountD, AppAccountB>>)
    /\ Len(OutAccounts) = 2
    /\ Get(OutAccounts[1], "email") = JStr(<<"a@x">>)
    /\ Get(OutAccounts[2], "email") = JStr(<<"b@x">>)

(***************************************************************************)
(* StepSpec: sync, clear and restore run one file operation at a time.     *)
(* A call is the sequence of the operations that change a file (copy,      *)
(* write, rename, remove), as the code issues them from the files it       *)
(* finds; a copy and a write pass through a partly written file.  Each     *)
(* operation may fail with an I/O error, which the call returns at once;   *)
(* a crash leaves the files as they are between two operations.            *)
(***************************************************************************)
\* path.with_extension("tmp")
tmp_path(path) == <<path[1], "tmp">>

StepPaths == Paths \cup {tmp_path(config_path), tmp_path(accounts_path)}

\* A file that a copy or a write has begun and not finished.
Partial == [fmt |-> "partial", doc |-> JNull]

NoPath == <<"", "">>

Op(op, from, to, content) == [op |-> op, from |-> from, to |-> to, content |-> content]

apply_op(files, o) ==
    CASE o.op \in {"copy_begin", "write_begin"} -> [files EXCEPT ![o.to] = Partial]
      [] o.op = "copy" -> [files EXCEPT ![o.to] = files[o.from]]
      [] o.op = "write" -> [files EXCEPT ![o.to] = o.content]
      [] o.op = "rename" -> [files EXCEPT ![o.to] = files[o.from], ![o.from] = Absent]
      [] o.op = "remove" -> [files EXCEPT ![o.to] = Absent]

RECURSIVE apply_ops(_, _)
apply_ops(files, ops) ==
    IF ops = <<>> THEN files ELSE apply_ops(apply_op(files, Head(ops)), Tail(ops))

\* create_backup: fs::copy(path, backup_path) unless there is nothing to copy or a
\* backup exists.
create_backup_ops(files, path) ==
    IF ~exists(files, path) \/ exists(files, with_suffix(path, BACKUP_SUFFIX)) THEN <<>>
    ELSE <<Op("copy_begin", path, with_suffix(path, BACKUP_SUFFIX), Absent),
           Op("copy", path, with_suffix(path, BACKUP_SUFFIX), Absent)>>

\* fs::write(tmp_path, text), fs::rename(tmp_path, path)
write_ops(path, content) ==
    <<Op("write_begin", NoPath, tmp_path(path), Absent),
      Op("write", NoPath, tmp_path(path), content),
      Op("rename", tmp_path(path), path, Absent)>>

\* restore_backup_to_target: fs::remove_file(target) if it exists, fs::rename.
restore_ops(files, backup_path, target_path) ==
    (IF exists(files, target_path) THEN <<Op("remove", NoPath, target_path, Absent)>> ELSE <<>>)
    \o <<Op("rename", backup_path, target_path, Absent)>>

\* The operations of a call and the result it returns when none of them fails.
sync_accounts_plan(files, path, listing, now) ==
    LET backup == create_backup_ops(files, path)
        f1 == apply_ops(files, backup)
        existing_json == IF exists(f1, path) THEN from_str(f1[path])
                         ELSE [some |-> FALSE, v |-> JNull]
    IN  IF ~listing.ok THEN [ops |-> backup, res |-> "err"]
        ELSE [ops |-> backup \o write_ops(path, to_string_pretty(
                          build_accounts_file(existing_json, listing.accounts, now))),
              res |-> "ok"]

sync_plan(files, proxy_url, api_key, sync_accounts, models_to_sync, listing, now) ==
    LET backup == create_backup_ops(files, config_path)
        f1 == apply_ops(files, backup)
        parsed == IF exists(f1, config_path) THEN from_str(f1[config_path])
                  ELSE [some |-> FALSE, v |-> JNull]
        doc == apply_sync_to_config(IF parsed.some THEN parsed.v ELSE JObj(EmptyMap),
                                    proxy_url, api_key, models_to_sync)
        write == write_ops(config_path, to_string_pretty(doc))
        accounts == IF sync_accounts
                    THEN sync_accounts_plan(apply_ops(f1, write), accounts_path, listing, now)
                    ELSE [ops |-> <<>>, res |-> "ok"]
    IN  [ops |-> backup \o write \o accounts.ops, res |-> accounts.res]

restore_target_plan(files, path) ==
    IF exists(files, with_suffix(path, BACKUP_SUFFIX))
    THEN [ops |-> restore_ops(files, with_suffix(path, BACKUP_SUFFIX), path), restored |-> TRUE]
    ELSE IF exists(files, with_suffix(path, OLD_BACKUP_SUFFIX))
    THEN [ops |-> restore_ops(files, with_suffix(path, OLD_BACKUP_SUFFIX), path), restored |-> TRUE]
    ELSE [ops |-> <<>>, restored |-> FALSE]

restore_plan(files) ==
    LET r1 == restore_target_plan(files, config_path)
        r2 == restore_target_plan(apply_ops(files, r1.ops), accounts_path)
    IN  [ops |-> r1.ops \o r2.ops, res |-> IF r1.restored \/ r2.restored THEN "ok" ELSE "err"]

\* The accounts pass of clear_opencode_config.
clear_accounts_ops(files) ==
    IF exists(files, with_suffix(accounts_path, BACKUP_SUFFIX))
    THEN restore_ops(files, with_suffix(accounts_path, BACKUP_SUFFIX), accounts_path)
    ELSE IF exists(files, with_suffix(accounts_path, OLD_BACKUP_SUFFIX))
    THEN restore_ops(files, with_suffix(accounts_path, OLD_BACKUP_SUFFIX), accounts_path)
    ELSE IF exists(files, accounts_path)
    THEN <<Op("remove", NoPath, accounts_path, Absent)>>
    ELSE <<>>

\* The config pass once the backup is made: files are the files after the backup,
\* parsed is serde_json::from_str of the config.
clear_config_ops(parsed, proxy_url, clear_legacy) ==
    write_ops(config_path, to_string_pretty(apply_clear_to_config(parsed.v, proxy_url, clear_legacy)))

clear_after_write(files, backup, write) ==
    [ops |-> backup \o write \o clear_accounts_ops(apply_ops(files, write)), res |-> "ok"]

clear_after_backup(files, backup, proxy_url, clear_legacy) ==
    IF ~exists(files, config_path) THEN clear_after_write(files, backup, <<>>)
    ELSE IF ~from_str(files[config_path]).some THEN [ops |-> backup, res |-> "err"]
    ELSE clear_after_write(files, backup,
                           clear_config_ops(from_str(files[config_path]), proxy_url, clear_legacy))

clear_with_backup(files, backup, proxy_url, clear_legacy) ==
    clear_after_backup(apply_ops(files, backup), backup, proxy_url, clear_legacy)

clear_plan(files, proxy_url, clear_legacy) ==
    clear_with_backup(files, create_backup_ops(files, config_path), proxy_url, clear_legacy)

NoCall == [name |-> "none", res |-> "none", final |-> <<>>]

Running == call.name # "none"

StepInit ==
    /\ fs \in {[p \in StepPaths |-> IF p \in Paths THEN files[p] ELSE Absent] :
                  files \in InitialFiles}
    /\ fsInit = fs /\ fsPre = fs /\ fsHist = <<>> /\ fsRes = "none"
    /\ fsSnap = [f \in Targets |-> Absent]
    /\ fsArgs = NoArgs
    /\ todo = <<>> /\ call = NoCall
    /\ NormIdle /\ MergeIdle

\* The call begins: it has all its operations to do.
Begin(name, args, plan) ==
    /\ ~Running
    /\ Len(fsHist) < MaxCalls
    /\ call' = [name |-> name, res |-> plan.res, final |-> apply_ops(fs, plan.ops)]
    /\ todo' = plan.ops
    /\ fsPre' = fs
    /\ fsArgs' = args
    /\ UNCHANGED <<fs, fsInit, fsHist, fsSnap, fsRes, normVars, mergeVars>>

BeginSync(e, c, m, acc, now) ==
    \E plan \in {sync_plan(fs, e, c, acc[1], m, acc[2], now)} :
        Begin("sync", [sync_accounts |-> acc[1], listing |-> acc[2], now |-> now], plan)

BeginClear(p, legacy) == \E plan \in {clear_plan(fs, p, legacy)} : Begin("clear", NoArgs, plan)

BeginRestore == \E plan \in {restore_plan(fs)} : Begin("restore", NoArgs, plan)

\* The next file operation of the running call.
Step ==
    /\ Running /\ todo # <<>>
    /\ fs' = apply_op(fs, Head(todo))
    /\ todo' = Tail(todo)
    /\ UNCHANGED <<call, fsInit, fsHist, fsSnap, fsPre, fsRes, fsArgs, normVars, mergeVars>>

\* The call returns res.
Returned(res) ==
    /\ fsRes' = res
    /\ fsHist' = Append(fsHist, [name |-> call.name, res |-> res, both |-> HasBothBackups(fsPre),
                                  accounts |-> fsArgs.sync_accounts])
    /\ call' = NoCall
    /\ todo' = <<>>
    /\ UNCHANGED <<fs, fsInit, fsSnap, fsPre, fsArgs, normVars, mergeVars>>

\* The next file operation fails with an I/O error, which `?` returns.
Fail == Running /\ todo # <<>> /\ Returned("err")

Return == Running /\ todo = <<>> /\ Returned(call.res)

StepNext ==
    \/ \E e \in {UrlH}, c \in Credentials, m \in FsSelectors, acc \in AccountInputs, now \in Clock :
           BeginSync(e, c, m, acc, now)
    \/ \E x \in FsClearInputs : BeginClear(x[1], x[2])
    \/ BeginRestore
    \/ Step
    \/ Fail
    \/ Return

StepSpec == StepInit /\ [][StepNext]_vars

(***************************************************************************)
(* Properties of StepSpec.                                                 *)
(***************************************************************************)
\* A call whose operations all succeed leaves the files, and returns the result,
\* of the call taken as one step; a temporary file is gone, or is the one an
\* earlier failed call left behind.
Agrees(r) ==
    /\ \A p \in Paths : call.final[p] = r.fs[p]
    /\ call.res = r.res
    /\ \A p \in StepPaths \ Paths : call.final[p] \in {Absent, fsPre[p]}

StepsAgreeWithCalls ==
    LET before == [p \in Paths |-> fsPre[p]]
    IN  /\ call.name = "sync" =>
               \E e \in {UrlH}, c \in Credentials, m \in FsSelectors :
                   Agrees(sync_opencode_config(before, e, c, fsArgs.sync_accounts, m,
                                               fsArgs.listing, fsArgs.now))
        /\ call.name = "clear" =>
               \E x \in FsClearInputs : Agrees(clear_opencode_config(before, x[1], x[2]))
        /\ call.name = "restore" => Agrees(restore_opencode_config(before))

HadBackup(f) == exists(fsPre, <<f, BACKUP_SUFFIX>>) \/ exists(fsPre, <<f, OLD_BACKUP_SUFFIX>>)

\* The backup restore_opencode_config takes for the target.
BackupUsed(f) ==
    IF exists(fsPre, <<f, BACKUP_SUFFIX>>) THEN <<f, BACKUP_SUFFIX>> ELSE <<f, OLD_BACKUP_SUFFIX>>

RestoreReturned == ~Running /\ Calls >= 1 /\ fsHist[Calls].name = "restore"

\* C11: restore_opencode_config returns an error only when neither file had a
\* backup, under either suffix; when some file had one, every file that had one is
\* restored from it and the result is Ok, a failure on one file not preventing the
\* attempt on the other.
C11_RestorePartialSuccess ==
    RestoreReturned =>
        /\ fsRes = "err" <=> \A f \in Targets : ~HadBackup(f)
        /\ \A f \in Targets :
               IF HadBackup(f)
               THEN fs[<<f, "">>] = fsPre[BackupUsed(f)] /\ ~exists(fs, BackupUsed(f))
               ELSE fs[<<f, "">>] = fsPre[<<f, "">>]

\* C11 holds of every restore in which no file operation fails.
C11_UnlessIoFails ==
    (Running /\ call.name = "restore") =>
        /\ call.res = "err" <=> \A f \in Targets : ~HadBackup(f)
        /\ \A f \in Targets :
               IF HadBackup(f)
               THEN call.final[<<f, "">>] = fsPre[BackupUsed(f)] /\ ~exists(call.final, BackupUsed(f))
               ELSE call.final[<<f, "">>] = fsPre[<<f, "">>]

\* C17: crash safety: at every point of a sync, a clear or a restore, each live
\* target file that existed before the call exists and holds its content of before
\* the call or the content the call gives it (no file, for the accounts file that
\* a clear deletes): it is never missing meanwhile nor partly written.
C17_CrashSafe ==
    Running =>
        \A f \in Targets :
            exists(fsPre, <<f, "">>) =>
                /\ fs[<<f, "">>] \in {fsPre[<<f, "">>], call.final[<<f, "">>]}
                /\ fs[<<f, "">>] # Partial

\* C17 holds at every point of a sync.
C17_SyncCrashSafe ==
    (Running /\ call.name = "sync") =>
        \A f \in Targets :
            exists(fsPre, <<f, "">>) =>
                /\ exists(fs, <<f, "">>)
                /\ fs[<<f, "">>] \in {fsPre[<<f, "">>], call.final[<<f, "">>]}

(***************************************************************************)
(* The raw read.  read_opencode_config_content(file_name) takes an         *)
(* Option<String>; the directory is the home directory joined with the     *)
(* tool's directory, and there is none when dirs::home_dir() gives None.   *)
(* A result is [ok, text, err, name, allowed]: the content read, or the    *)
(* message of the error with the name and the list it is formatted with.   *)
(* accessed lists the calls made on the file system, in order.             *)
(***************************************************************************)
\* get_config_paths(): (opencode_path, ag_config_path, ag_accounts_path)
get_config_paths(home) ==
    IF home
    THEN Some(<<config_path, <<ANTIGRAVITY_CONFIG_FILE, "">>, accounts_path>>)
    ELSE None

allowed_files == <<OPENCODE_CONFIG_FILE, ANTIGRAVITY_CONFIG_FILE, ANTIGRAVITY_ACCOUNTS_FILE>>

ReadOk(text) == [ok |-> TRUE, text |-> text, err |-> "", name |-> "", allowed |-> <<>>]

ReadErr(err, name, allowed) ==
    [ok |-> FALSE, text |-> Absent, err |-> err, name |-> name, allowed |-> allowed]

Access(op, path) == [op |-> op, path |-> path]

\* Mutant: a name outside the allowlist reads the default file.
read_defaults_on_unknown_name(files, home, file_name, readable) ==
    LET paths == get_config_paths(home)
        target_path == IF file_name.some /\ file_name.v = ANTIGRAVITY_CONFIG_FILE THEN paths.v[2]
                       ELSE IF file_name.some /\ file_name.v = ANTIGRAVITY_ACCOUNTS_FILE
                       THEN paths.v[3]
                       ELSE paths.v[1]
    IN  IF ~paths.some
        THEN [res |-> ReadErr("Failed to get OpenCode config directory", "", <<>>),
              accessed |-> <<>>]
        ELSE IF ~exists(files, target_path)
        THEN [res |-> ReadErr("Config file does not exist", "", <<>>),
              accessed |-> <<Access("exists", target_path)>>]
        ELSE IF ~readable
        THEN [res |-> ReadErr("Failed to read config", "", <<>>),
              accessed |-> <<Access("exists", target_path), Access("read", target_path)>>]
        ELSE [res |-> ReadOk(files[target_path]),
              accessed |-> <<Access("exists", target_path), Access("read", target_path)>>]

\* read_opencode_config_content(file_name); readable is whether fs::read_to_string
\* succeeds on a file that exists.
read_opencode_config_content(files, home, file_name, readable) ==
    LET paths == get_config_paths(home)
        target_path == IF file_name.some /\ file_name.v = ANTIGRAVITY_CONFIG_FILE THEN paths.v[2]
                       ELSE IF file_name.some /\ file_name.v = ANTIGRAVITY_ACCOUNTS_FILE
                       THEN paths.v[3]
                       ELSE IF file_name.some /\ file_name.v = OPENCODE_CONFIG_FILE
                       THEN paths.v[1]
                       ELSE IF file_name.some THEN NoPath
                       ELSE paths.v[1]
    IN  IF ~paths.some
        THEN [res |-> ReadErr("Failed to get OpenCode config directory", "", <<>>),
              accessed |-> <<>>]
        ELSE IF target_path = NoPath
        THEN [res |-> ReadErr("Invalid file name", file_name.v, allowed_files),
              accessed |-> <<>>]
        ELSE IF ~exists(files, target_path)
        THEN [res |-> ReadErr("Config file does not exist", "", <<>>),
              accessed |-> <<Access("exists", target_path)>>]
        ELSE IF ~readable
        THEN [res |-> ReadErr("Failed to read config", "", <<>>),
              accessed |-> <<Access("exists", target_path), Access("read", target_path)>>]
        ELSE [res |-> ReadOk(files[target_path]),
              accessed |-> <<Access("exists", target_path), Access("read", target_path)>>]

(***************************************************************************)
(* ReadSpec: raw reads of a directory that holds any of the three files,   *)
(* backups and other files.  fsHist records each call: its argument, the   *)
(* inputs of the environment, its result and its accesses.                 *)
(***************************************************************************)
ReadNames ==
    {OPENCODE_CONFIG_FILE, ANTIGRAVITY_CONFIG_FILE, ANTIGRAVITY_ACCOUNTS_FILE,
     "opencode.json.antigravity-manager.bak", "../opencode.json", "OPENCODE.JSON",
     "opencode", ""}

\* file_name: None, with the empty string in the place of the name.
NoName == [some |-> FALSE, v |-> ""]

ReadArgs == {NoName} \cup {Some(name) : name \in ReadNames}

ReadPaths == {<<name, "">> : name \in ReadNames}

PluginConfigDocument == JObj([quiet_mode |-> JBool(TRUE)])

ReadFiles ==
    {[p \in ReadPaths |->
         CASE p = config_path -> c
           [] p = <<ANTIGRAVITY_CONFIG_FILE, "">> -> g
           [] p = accounts_path -> a
           [] p = <<"opencode.json.antigravity-manager.bak", "">> -> b
           [] OTHER -> Absent] :
        c \in {Absent, UserText(UserDocument)},
        g \in {Absent, UserText(PluginConfigDocument)},
        a \in {Absent, Garbage},
        b \in {Absent, UserText(OldBackupDocument)}}

ReadInit ==
    /\ fs \in ReadFiles
    /\ fsInit = fs /\ fsPre = fs /\ fsHist = <<>> /\ fsRes = "none"
    /\ fsSnap = <<>> /\ fsArgs = <<>>
    /\ todo = <<>> /\ call = <<>>
    /\ NormIdle /\ MergeIdle

ReadContent(file_name, home, readable) ==
    /\ Len(fsHist) < MaxReads
    /\ LET r == read_opencode_config_content(fs, home, file_name, readable)
       IN  fsHist' = Append(fsHist, [name |-> "read", file_name |-> file_name, home |-> home,
                                     res |-> r.res, accessed |-> r.accessed])
    /\ UNCHANGED <<fs, fsInit, fsSnap, fsPre, fsRes, fsArgs, todo, call, normVars, mergeVars>>

ReadNext == \E file_name \in ReadArgs, home \in BOOLEAN, readable \in BOOLEAN :
                ReadContent(file_name, home, readable)

ReadSpec == ReadInit /\ [][ReadNext]_vars

(***************************************************************************)
(* Properties of ReadSpec.                                                 *)
(***************************************************************************)
Allowlist == {allowed_files[i] : i \in 1..Len(allowed_files)}

Disallowed(file_name) == file_name.some /\ file_name.v \notin Allowlist

Rejected(c) ==
    /\ c.res = ReadErr("Invalid file name", c.file_name.v, allowed_files)
    /\ c.accessed = <<>>

\* The file a call with an allowed argument reads.
ReadTarget(file_name) == <<IF file_name.some THEN file_name.v ELSE OPENCODE_CONFIG_FILE, "">>

ReadsItsFile(c) ==
    /\ \A i \in 1..Len(c.accessed) : c.accessed[i].path = ReadTarget(c.file_name)
    /\ c.res.ok => c.res.text = fs[ReadTarget(c.file_name)] /\ exists(fs, ReadTarget(c.file_name))
    /\ (c.res.ok \/ c.res.err = "Failed to read config") <=> exists(fs, ReadTarget(c.file_name))

\* C18: read_opencode_config_content reads only the three allowlisted files: for
\* every name that is not exactly one of them it returns an "Invalid file name"
\* error that lists the allowlist, without an existence check or a read of any
\* file; with no name it reads opencode.json.
C18_ReadAllowlist ==
    \A i \in 1..Len(fsHist) :
        LET c == fsHist[i]
        IN  IF Disallowed(c.file_name) THEN Rejected(c)
            ELSE c.home => ReadsItsFile(c)

\* C18, amended: the same when the directory is resolved; when it is not, every
\* call, whatever its argument, returns the error of the directory and accesses
\* no file.
C18_ReadAllowlistAmended ==
    \A i \in 1..Len(fsHist) :
        LET c == fsHist[i]
        IN  IF ~c.home
            THEN /\ c.res = ReadErr("Failed to get OpenCode config directory", "", <<>>)
                 /\ c.accessed = <<>>
            ELSE IF Disallowed(c.file_name) THEN Rejected(c)
            ELSE ReadsItsFile(c)

\* A name of a file that exists in the directory is rejected, and the default
\* read returns the content of opencode.json.
C18_Witness ==
    /\ Len(fsHist) = 2
    /\ fsHist[1].home /\ fsHist[1].file_name = Some("opencode.json.antigravity-manager.bak")
    /\ exists(fs, <<"opencode.json.antigravity-manager.bak", "">>)
    /\ fsHist[1].res.err = "Invalid file name"
    /\ fsHist[2].home /\ fsHist[2].file_name = NoName
    /\ fsHist[2].res = ReadOk(UserText(UserDocument))

(***************************************************************************)
(* Properties of AccountsSpec: the match of an account with the records.   *)
(***************************************************************************)
\* The entries of the existing file that deserialize and hold the email.
EmailRecordOf(x, email) == plugin_account_ok(x) /\ Field(x, "email") = JStr(email)

TokenMatches(acc) == {j \in DOMAIN PrevRecords : RecordOf(PrevRecords[j], acc.refresh_token)}

EmailMatches(acc) == {j \in DOMAIN PrevRecords : EmailRecordOf(PrevRecords[j], acc.email)}

\* The written record of acc is new: addedAt is the clock, lastUsed the
\* application's, and no field the plugin owns is there.
IsNewRecord(acc) ==
    /\ \E n \in DOMAIN OutAccounts : WrittenFor(OutAccounts[n], acc)
    /\ \A n \in DOMAIN OutAccounts :
           LET out == OutAccounts[n]
           IN  WrittenFor(out, acc) =>
                   /\ Field(out, "addedAt") = JNum(fsArgs.now)
                   /\ Field(out, "lastUsed") = JNum(acc.last_used)
                   /\ Field(out, "email") = JStr(acc.email)
                   /\ \A key \in OwnedFields : ~Has(out, key)

\* C21: match priority: an enabled account takes the state of an existing record
\* with its refresh token, even when another record has its email; it takes the
\* state of a record with its email only when no record has its refresh token;
\* with neither, its record is new: addedAt is now and no field that the plugin
\* owns is present.
C21_MatchPriority ==
    Written =>
        \A i \in DOMAIN fsArgs.listing.accounts :
            LET acc == fsArgs.listing.accounts[i]
            IN  IsEnabled(acc) =>
                    IF TokenMatches(acc) # {}
                    THEN \E j \in TokenMatches(acc) : Inherits(acc, PrevRecords[j])
                    ELSE IF EmailMatches(acc) # {}
                    THEN \E j \in EmailMatches(acc) : Inherits(acc, PrevRecords[j])
                    ELSE IsNewRecord(acc)

\* The file held the records of a@x (rt-a) and c@x (rt-c); the account c@x with
\* rt-a took the state of the record of a@x, b@x the state of its record under an
\* older token, and in another call an account with no record was new.
C21_Witness ==
    /\ Written /\ Calls = 1
    /\ Field(fsPre[accounts_path].doc, "accounts") = JArr(<<RecA, RecC, RecD, RecB>>)
    /\ fsArgs.listing = Listed(<<AppAccountE, AppAccountB>>)
    /\ Get(OutAccounts[1], "email") = JStr(<<"c@x">>)
    /\ Get(OutAccounts[1], "addedAt") = JNum(1)
    /\ Get(OutAccounts[1], "coolingDownUntil") = JNum(50)
    /\ Get(OutAccounts[2], "refreshToken") = JStr(<<"rt-b">>)
    /\ Get(OutAccounts[2], "addedAt") = JNum(2)

\* An account with no record in the file was written as a new record.
C21_NewWitness ==
    /\ Written /\ Calls = 1
    /\ Field(fsPre[accounts_path].doc, "accounts") = JArr(<<RecA>>)
    /\ fsArgs.listing = Listed(<<AppAccountA, AppAccountD, AppAccountB>>)
    /\ IsNewRecord(AppAccountB)

(***************************************************************************)
(* Properties of AccountsSpec: a sync after a sync.                        *)
(***************************************************************************)
\* The accounts of the listing have pairwise distinct refresh tokens and emails.
Distinct(listing) ==
    \A i, j \in DOMAIN listing.accounts :
        i # j => /\ listing.accounts[i].refresh_token # listing.accounts[j].refresh_token
                 /\ listing.accounts[i].email # listing.accounts[j].email

\* The last call wrote the file, which the call before had written from fsArgs.seen.
WrittenTwice ==
    /\ Written /\ fsArgs.seen.ok
    /\ Distinct(fsArgs.seen) /\ Distinct(fsArgs.listing)

\* The record of the refresh token in a list of records.
RecordWith(records, token) ==
    records[CHOOSE n \in DOMAIN records : Get(records[n], "refreshToken") = JStr(token)]

\* The record written for b has the addedAt of the record a had, and a lastUsed
\* that is not less.
KeepsAge(a, b) ==
    LET old == RecordWith(PrevRecords, a.refresh_token)
        new == RecordWith(OutAccounts, b.refresh_token)
    IN  /\ Get(new, "addedAt") = Get(old, "addedAt")
        /\ Get(new, "lastUsed").n >= Get(old, "lastUsed").n

\* C22, as claimed: from one sync to the next, an account that stays enabled and
\* keeps its refresh token or its email keeps its addedAt, and its lastUsed does
\* not decrease.
C22_AddedAtStable ==
    WrittenTwice =>
        \A i \in DOMAIN fsArgs.seen.accounts : \A k \in DOMAIN fsArgs.listing.accounts :
            LET a == fsArgs.seen.accounts[i]
                b == fsArgs.listing.accounts[k]
            IN  (/\ IsEnabled(a) /\ IsEnabled(b)
                 /\ (b.refresh_token = a.refresh_token \/ b.email = a.email))
                => KeepsAge(a, b)

\* The refresh token is on a record of the file the call found.
TokenInFile(token) ==
    \E n \in DOMAIN PrevRecords : RecordOf(PrevRecords[n], token)

\* C22, amended: the same of an account that keeps its refresh token, or that
\* keeps its email while its new refresh token is on no record of the file.
C22_AddedAtStableAmended ==
    WrittenTwice =>
        \A i \in DOMAIN fsArgs.seen.accounts : \A k \in DOMAIN fsArgs.listing.accounts :
            LET a == fsArgs.seen.accounts[i]
                b == fsArgs.listing.accounts[k]
            IN  (/\ IsEnabled(a) /\ IsEnabled(b)
                 /\ \/ b.refresh_token = a.refresh_token
                    \/ b.email = a.email /\ ~TokenInFile(b.refresh_token))
                => KeepsAge(a, b)

\* a@x was written as new at 100 and last used at 5, then synced again at 200 and
\* last used at 20: addedAt is still 100, lastUsed is 20; and b@x kept its record.
C22_Witness ==
    /\ WrittenTwice /\ Calls = 2
    /\ ~exists(fsInit, accounts_path)
    /\ fsArgs.seen = Listed(<<AppAccountA, AppAccountD, AppAccountB>>)
    /\ fsArgs.listing = Listed(<<AppAccountB, AppAccountC, AppAccountA2>>)
    /\ fsArgs.now = 200
    /\ Get(RecordWith(OutAccounts, <<"rt-a">>), "addedAt") = JNum(100)
    /\ Get(RecordWith(OutAccounts, <<"rt-a">>), "lastUsed") = JNum(20)
    /\ Get(RecordWith(OutAccounts, <<"rt-b">>), "addedAt") = JNum(100)

\* a@x came back with a refresh token no record had: its record was found by email.
C22_EmailWitness ==
    /\ WrittenTwice /\ Calls = 2
    /\ Field(fsInit[accounts_path].doc, "accounts") = JArr(<<RecA>>)
    /\ fsArgs.seen = Listed(<<AppAccountA>>)
    /\ fsArgs.listing = Listed(<<AppAccountF>>)
    /\ Get(RecordWith(OutAccounts, <<"rt-b">>), "addedAt") = JNum(1)

(***************************************************************************)
(* Properties of AccountsSpec: indices that are no 32-bit integers.        *)
(***************************************************************************)
IsInteger(v) == v.k \in {"num", "u64"}

IsWide(v) == v.k = "u64" \/ (v.k = "num" /\ v.s # <<>>)

\* The sign of the integer the JSON value holds.
IsNegative(v) == v.k = "num" /\ (IF v.s # <<>> THEN v.s[1] < 0 ELSE v.n < 0)

\* min(max(v, 0), count - 1) for the integer the JSON value holds and count >= 1.
Clamped(v, count) ==
    IF IsNegative(v) THEN 0
    ELSE IF IsWide(v) THEN count - 1
    ELSE IF v.n > count - 1 THEN count - 1
    ELSE v.n

PrevFile == from_str(fsPre[accounts_path])

PrevIndex == Field(PrevFile.v, "activeIndex")

PrevFamilies ==
    IF PrevFile.some /\ is_object(PrevFile.v) /\ is_object(Field(PrevFile.v, "activeIndexByFamily"))
    THEN Get(PrevFile.v, "activeIndexByFamily").o ELSE EmptyMap

IndexClamped(wide) ==
    (Written /\ Len(OutAccounts) >= 1 /\ PrevFile.some /\ is_object(PrevFile.v)) =>
        /\ (IsInteger(PrevIndex) /\ (wide \/ ~IsWide(PrevIndex))) =>
               Get(OutFile, "activeIndex") = JNum(Clamped(PrevIndex, Len(OutAccounts)))
        /\ \A family \in DOMAIN PrevFamilies :
               (IsInteger(PrevFamilies[family]) /\ (wide \/ ~IsWide(PrevFamilies[family]))) =>
                   Get(Get(OutFile, "activeIndexByFamily"), family)
                       = JNum(Clamped(PrevFamilies[family], Len(OutAccounts)))

\* C23: for every integer activeIndex v of the existing file, those outside the
\* 32-bit signed range included, and N >= 1 accounts written, the activeIndex
\* written is min(max(v, 0), N - 1); the same for each value of activeIndexByFamily.
C23_IndexClampedAnyInteger == IndexClamped(TRUE)

\* C23 holds of the integers that are i32.
C23_IndexClampedI32 == IndexClamped(FALSE)

\* A stale activeIndex 7 with two accounts written gives 1.
C23_StaleWitness ==
    /\ Written /\ Calls = 1 /\ Len(OutAccounts) = 2
    /\ PrevFile.some /\ is_object(PrevFile.v) /\ PrevIndex = JNum(7)
    /\ Get(OutFile, "activeIndex") = JNum(1)

(***************************************************************************)
(* Properties of AccountsSpec: the families of activeIndexByFamily.        *)
(***************************************************************************)
OutFamilies == Get(OutFile, "activeIndexByFamily").o

\* The family has the clamped value of its entry in the existing file: of an
\* integer that is an i32, min(max(v, 0), count - 1), or 0 with no account.
KeptClamped(family) ==
    /\ family \in DOMAIN OutFamilies
    /\ InRange(OutFamilies[family], Len(OutAccounts))
    /\ (~IsWide(PrevFamilies[family]) /\ Len(OutAccounts) >= 1) =>
           OutFamilies[family] = JNum(Clamped(PrevFamilies[family], Len(OutAccounts)))

DefaultFamilies == {"claude", "gemini"}

I64Families == {family \in DOMAIN PrevFamilies : PrevFamilies[family].k = "num"}

OnlySyncs == \A i \in DOMAIN hist : hist[i].name = "sync"

\* C25: apply_sync_to_config sets the top-level `$schema` only when the key is
\* absent: a `$schema` key that the document has, whatever its value, has the same
\* value after any number of syncs; a document without it gets the schema URL.
C25_SchemaSetOnlyIfAbsent ==
    (OnlySyncs /\ hist # <<>>) =>
        /\ Has(config, "$schema")
        /\ Get(config, "$schema") =
               IF is_object(orig) /\ Has(orig, "$schema") THEN Get(orig, "$schema")
               ELSE JStr(SchemaUrl)

\* A document whose `$schema` is null has it null after two syncs.
C25_Witness ==
    /\ OnlySyncs /\ Len(hist) = 2
    /\ is_object(orig) /\ Has(orig, "$schema") /\ Get(orig, "$schema") = JNull
    /\ Get(config, "$schema") = JNull
    /\ HasPath(config, ManagedPath)

(***************************************************************************)
(* Properties of MergeSpec: the merge of one model.                        *)
(***************************************************************************)
\* The fields the catalog defines for the model.
CatalogFields(def) ==
    {"name", "limit", "modalities"}
    \cup (IF def.reasoning THEN {"reasoning"} ELSE {})
    \cup (IF def.variant_type # "None" THEN {"variants"} ELSE {})

\* The model holds the catalog's value in every field the catalog defines.
HasCatalogFields(model, def) ==
    /\ is_object(model)
    /\ CatalogFields(def) \subseteq DOMAIN model.o
    /\ Get(model, "name") = JStr(<<def.name>>)
    /\ Get(model, "limit") = JObj([context |-> JNum(def.context_limit),
                                   output |-> JNum(def.output_limit)])
    /\ Get(model, "modalities") = JObj([input |-> StrArr(def.input_modalities),
                                        output |-> StrArr(def.output_modalities)])
    /\ def.reasoning => Get(model, "reasoning") = JBool(TRUE)
    /\ def.variant_type # "None" => Get(model, "variants") = build_variants_object(def.variant_type).v

ManagedModel(d, id) ==
    IF HasPath(d, ManagedPath \o <<"models", id>>) THEN At(d, ManagedPath \o <<"models", id>>)
    ELSE JAbsent

\* C26: the merge of a model: for each selected id of the catalog, the model of
\* the managed map has the catalog's value in every field the catalog defines
\* (name, limit, modalities, and reasoning and variants when it defines them); a
\* model that was an object keeps every other field it had; one that was no object,
\* or was not there, is the catalog entry and nothing more.
C26_PerModelMerge ==
    (LastIs("sync") /\ ManagedModelsIsMapOrNone(prev)) =>
        \A id \in SeqToSet(ids_to_sync(Last.m)) \cap CatalogIds :
            LET def == CatalogDef(id)
                old == ManagedModel(prev, id)
                new == ManagedModel(config, id)
            IN  /\ HasCatalogFields(new, def)
                /\ IF is_object(old)
                   THEN /\ DOMAIN new.o = (DOMAIN old.o) \cup CatalogFields(def)
                        /\ \A x \in (DOMAIN old.o) \ CatalogFields(def) : new.o[x] = old.o[x]
                   ELSE DOMAIN new.o = CatalogFields(def)

\* The sync of A and B on a map that held A with a name, a limit, reasoning false
\* and variants of the user, and B with variants and a temperature: A has the
\* catalog's name and limit and keeps reasoning false and the user's variants; B
\* has the catalog's variants and keeps the temperature.
C26_Witness ==
    /\ LastIs("sync") /\ Len(hist) = 1 /\ Last.m = OnlyModels(<<ModelA, ModelB>>)
    /\ is_object(ManagedModel(prev, ModelA)) /\ Has(ManagedModel(prev, ModelA), "reasoning")
    /\ Get(ManagedModel(config, ModelA), "name") = JStr(<<"Claude Sonnet 4.5">>)
    /\ Get(ManagedModel(config, ModelA), "reasoning") = JBool(FALSE)
    /\ Get(ManagedModel(config, ModelA), "variants") = JStr(<<"mine">>)
    /\ Get(ManagedModel(config, ModelB), "temperature") = JNum(1)
    /\ is_object(Get(ManagedModel(config, ModelB), "variants"))

\* A model that was a string is the catalog entry.
C26_ReplacedWitness ==
    /\ LastIs("sync") /\ Len(hist) = 1
    /\ ManagedModel(prev, ModelA) = JStr(<<"x">>)
    /\ ManagedModel(config, ModelA) = build_model_json(CatalogDef(ModelA))

(***************************************************************************)
(* Properties of MergeSpec: the models of the legacy providers.            *)
(***************************************************************************)
ModelsPath(name) == <<"provider", name, "models">>

AllowlistIds == SeqToSet(ANTIGRAVITY_MODEL_IDS)

\* C27: legacy model cleanup: a clear with clear_legacy and an endpoint removes
\* from the `models` map of anthropic and of google exactly the ids of the managed
\* model id allowlist, whether the baseURL of the entry matches or not; every other
\* id is kept with an equal value, and `models` is dropped only when the map is
\* left empty.
C27_LegacyModelsRemoved ==
    LegacyClear =>
        \A name \in LegacyNames :
            (HasPath(prev, ModelsPath(name)) /\ is_object(At(prev, ModelsPath(name)))) =>
                LET old == At(prev, ModelsPath(name)).o
                    kept == (DOMAIN old) \ AllowlistIds
                IN  IF kept = {} THEN ~HasPath(config, ModelsPath(name))
                    ELSE /\ HasPath(config, ModelsPath(name))
                         /\ is_object(At(config, ModelsPath(name)))
                         /\ DOMAIN At(config, ModelsPath(name)).o = kept
                         /\ \A id \in kept : At(config, ModelsPath(name)).o[id] = old[id]

\* google, whose options have no baseURL, held gemini-pro and gemini-3-flash: it
\* holds gemini-pro; anthropic held claude-sonnet-4-5 alone: it has no `models`.
C27_Witness ==
    /\ LegacyClear
    /\ HasPath(prev, ModelsPath("google")) /\ is_object(At(prev, ModelsPath("google")))
    /\ DOMAIN At(prev, ModelsPath("google")).o = {"gemini-pro", "gemini-3-flash"}
    /\ ~HasPath(prev, OptionsPath("google") \o <<"baseURL">>)
    /\ DOMAIN At(config, ModelsPath("google")).o = {"gemini-pro"}
    /\ HasPath(prev, ModelsPath("anthropic") \o <<ModelA>>)
    /\ HasPath(config, <<"provider", "anthropic">>)
    /\ ~HasPath(config, ModelsPath("anthropic"))

(***************************************************************************)
(* Properties of MergeSpec: the clear without legacy cleanup.              *)
(***************************************************************************)
PlainClear == LastIs("clear") /\ ~Last.legacy

\* The document after the clear is the one before it but for `provider`, which
\* holds the entries of before without the managed one, or is gone when none is left.
OnlyManagedRemoved ==
    LET rest == (DOMAIN Get(prev, "provider").o) \ {ANTIGRAVITY_PROVIDER_ID}
    IN  /\ is_object(config)
        /\ (DOMAIN config.o) \ {"provider"} = (DOMAIN prev.o) \ {"provider"}
        /\ \A key \in (DOMAIN prev.o) \ {"provider"} : Get(config, key) = Get(prev, key)
        /\ Has(config, "provider") <=> rest # {}
        /\ rest # {} =>
               /\ is_object(Get(config, "provider"))
               /\ DOMAIN Get(config, "provider").o = rest
               /\ \A name \in rest : Get(Get(config, "provider"), name) = Get(Get(prev, "provider"), name)

\* C28, as claimed: a clear with clear_legacy false returns the document unchanged
\* when the managed key is absent; when it is present only that key is removed,
\* every other provider is kept with an equal value, and `provider` is removed
\* exactly when it is left an empty object.
C28_PlainClear ==
    PlainClear =>
        IF HasPath(prev, ManagedPath) THEN OnlyManagedRemoved ELSE config = prev

\* C28, amended: the same, except that a `provider` that is an empty object is
\* removed when the managed key is absent as well.
C28_PlainClearAmended ==
    PlainClear =>
        IF Has(prev, "provider") /\ is_object(Get(prev, "provider")) THEN OnlyManagedRemoved
        ELSE config = prev

\* The managed entry was removed from beside google, which is kept.
C28_Witness ==
    /\ PlainClear /\ Len(hist) = 1
    /\ HasPath(prev, ManagedPath \o <<"models">>)
    /\ HasPath(prev, <<"provider", "google">>)
    /\ ~HasPath(config, ManagedPath)
    /\ At(config, <<"provider", "google">>) = GoogleEntry
    /\ Get(config, "theme") = JStr(<<"dark">>)

\* The managed entry was alone: `provider` is gone.
C28_EmptiedWitness ==
    /\ PlainClear /\ Len(hist) = 1
    /\ HasPath(prev, ManagedPath) /\ DOMAIN Get(prev, "provider").o = {ANTIGRAVITY_PROVIDER_ID}
    /\ ~Has(config, "provider")

(***************************************************************************)
(* Properties of MatchSpec.                                                *)
(***************************************************************************)
Matched == mOut # <<>>

\* u followed by "/", "/v1" or "/v1/"
Extends(u, t) == \E x \in {<<"/">>, V1, V1 \o <<"/">>} : t = u \o x

\* No whitespace at the end of u, and u ends neither in "/" nor in "/v1".
PlainBase(u) ==
    /\ u = <<>> \/ ~IsWs(u[Len(u)])
    /\ ~EndsWith(u, <<"/">>)
    /\ ~EndsWith(u, V1)

\* t is the authority a with a suffix, with or without whitespace before it.
HasAuthority(t, a) ==
    \E l \in Padding, x \in MatchSuffixes : t = l \o a \o x

\* The relation is the equality of the normalized forms: reflexive, symmetric, transitive.
MatchesIsEquivalence ==
    /\ \A i, j \in DOMAIN mIn :
           mOut[i][j] <=> normalize_opencode_base_url(mIn[i]) = normalize_opencode_base_url(mIn[j])
    /\ \A i \in DOMAIN mIn : mOut[i][i]
    /\ \A i, j \in DOMAIN mIn : mOut[i][j] => mOut[j][i]
    /\ \A i, j, k \in DOMAIN mIn : (mOut[i][j] /\ mOut[j][k]) => mOut[i][k]

\* Strings with different authorities do not match.
DistinguishesAuthorities ==
    \A i, j \in DOMAIN mIn : \A a, b \in Authorities :
        (a # b /\ HasAuthority(mIn[i], a) /\ HasAuthority(mIn[j], b)) => ~mOut[i][j]

\* C29, as claimed: base_url_matches(a, b) holds iff the normalized forms are equal;
\* it is reflexive, symmetric and transitive, it matches every u with u + "/",
\* u + "/v1" and u + "/v1/", and it tells apart URLs that differ in host or port.
C29_Matches ==
    Matched =>
        /\ MatchesIsEquivalence
        /\ \A i, j \in DOMAIN mIn : Extends(mIn[i], mIn[j]) => mOut[i][j]
        /\ DistinguishesAuthorities

\* C29, amended: the same, with u + "/", u + "/v1" and u + "/v1/" matched to u for
\* the u that have no whitespace at the end and end neither in "/" nor in "/v1".
C29_MatchesAmended ==
    Matched =>
        /\ MatchesIsEquivalence
        /\ \A i, j \in DOMAIN mIn : (PlainBase(mIn[i]) /\ Extends(mIn[i], mIn[j])) => mOut[i][j]
        /\ DistinguishesAuthorities

\* h, h/v1/ and h/ match one another, and g/v1 matches none of them.
C29_Witness ==
    /\ Matched
    /\ mIn = <<<<"h">>, <<"h">> \o V1 \o <<"/">>, <<"g">> \o V1>>
    /\ mOut[1][2] /\ mOut[2][1] /\ ~mOut[1][3] /\ ~mOut[2][3]

\* h " " and h " /" : the whitespace is trimmed from the first alone.
C29_WhitespaceWitness ==
    /\ Matched
    /\ mIn[1] = <<"h", " ">> /\ mIn[2] = <<"h", " ", "/">>
    /\ ~mOut[1][2]

(***************************************************************************)
(* Properties of Spec: the order in which restore looks for backups.       *)
(***************************************************************************)
BackupBefore(f, suffix) == exists(fsPre, <<f, suffix>>)

\* C30: for each target file, a restore with both a current-suffix and a
\* legacy-suffix backup puts the content of the current-suffix backup in the target,
\* consumes it and leaves the legacy-suffix backup in place; the legacy-suffix backup
\* is restored only when there is no current-suffix backup.
C30_RestorePriority ==
    LastCalls(<<"restore">>) =>
        \A f \in Targets :
            IF BackupBefore(f, BACKUP_SUFFIX)
            THEN /\ fs[<<f, "">>] = fsPre[<<f, BACKUP_SUFFIX>>]
                 /\ ~exists(fs, <<f, BACKUP_SUFFIX>>)
                 /\ fs[<<f, OLD_BACKUP_SUFFIX>>] = fsPre[<<f, OLD_BACKUP_SUFFIX>>]
            ELSE IF BackupBefore(f, OLD_BACKUP_SUFFIX)
            THEN /\ fs[<<f, "">>] = fsPre[<<f, OLD_BACKUP_SUFFIX>>]
                 /\ ~exists(fs, <<f, OLD_BACKUP_SUFFIX>>)
            ELSE fs[<<f, "">>] = fsPre[<<f, "">>]

\* The config file had both backups, of different content: the current-suffix one
\* was restored and the legacy-suffix one is still there.
C30_Witness ==
    /\ LastCalls(<<"restore">>)
    /\ BackupBefore(OPENCODE_CONFIG_FILE, BACKUP_SUFFIX)
    /\ BackupBefore(OPENCODE_CONFIG_FILE, OLD_BACKUP_SUFFIX)
    /\ fsPre[<<OPENCODE_CONFIG_FILE, BACKUP_SUFFIX>>] # fsPre[<<OPENCODE_CONFIG_FILE, OLD_BACKUP_SUFFIX>>]
    /\ fs[config_path] = fsPre[<<OPENCODE_CONFIG_FILE, BACKUP_SUFFIX>>]
    /\ fs[<<OPENCODE_CONFIG_FILE, OLD_BACKUP_SUFFIX>>] = UserText(OldBackupDocument)

\* Only the legacy-suffix backup of the config file was there, and it was restored.
C30_LegacyWitness ==
    /\ LastCalls(<<"restore">>)
    /\ ~BackupBefore(OPENCODE_CONFIG_FILE, BACKUP_SUFFIX)
    /\ BackupBefore(OPENCODE_CONFIG_FILE, OLD_BACKUP_SUFFIX)
    /\ fs[config_path] = UserText(OldBackupDocument)
    /\ ~exists(fs, <<OPENCODE_CONFIG_FILE, OLD_BACKUP_SUFFIX>>)

(***************************************************************************)
(* Properties of StepSpec: the backup and the change of a target.          *)
(***************************************************************************)
\* The call that is running, or else the one that returned last.
CallName == IF Running THEN call.name ELSE IF Calls >= 1 THEN fsHist[Calls].name ELSE "none"

\* The target existed before the call and no longer holds its content.
Modified(f) == exists(fsPre, <<f, "">>) /\ fs[<<f, "">>] # fsPre[<<f, "">>]

\* The target had a current-suffix backup before the call, or has one now that
\* holds the content the target had before the call.
BackedUp(f) ==
    \/ exists(fsPre, <<f, BACKUP_SUFFIX>>)
    \/ fs[<<f, BACKUP_SUFFIX>>] = fsPre[<<f, "">>]

\* C31: in every sync and every clear, a target file that exists and has no
\* current-suffix backup gets one, of its content before the call, before it is
\* rewritten, renamed over or removed: no call changes an existing target that
\* has no current-suffix backup.
C31_BackupPrecedesMutation ==
    CallName \in {"sync", "clear"} => \A f \in Targets : Modified(f) => BackedUp(f)

\* C31 holds of every sync, and of the config file in every clear.
C31_SyncBacksUp ==
    /\ CallName = "sync" => \A f \in Targets : Modified(f) => BackedUp(f)
    /\ CallName = "clear" => (Modified(OPENCODE_CONFIG_FILE) => BackedUp(OPENCODE_CONFIG_FILE))

\* A sync has rewritten both files, each after its backup was made.
C31_SyncWitness ==
    /\ CallName = "sync" /\ ~Running /\ fsRes = "ok"
    /\ \A f \in Targets :
           /\ Modified(f)
           /\ ~exists(fsPre, <<f, BACKUP_SUFFIX>>)
           /\ fs[<<f, BACKUP_SUFFIX>>] = fsPre[<<f, "">>]

(***************************************************************************)
(* ConcSpec: two sync_opencode_config calls (sync_accounts false) on the   *)
(* same directory, each running its file system calls in program order,    *)
(* the calls of the two interleaved in any way.  call[i] is invocation i:  *)
(* where it is in the code, its api_key, the document it has read, its     *)
(* result.  fsHist lists the file system calls made, in order.             *)
(***************************************************************************)
Invocations == {1, 2}

ConcKeys == <<<<"key-1">>, <<"key-2">>>>

Invocation(api_key) == [pc |-> "path_exists", api_key |-> api_key, config |-> JNull, res |-> "none"]

Goto(inv, pc) == [inv EXCEPT !.pc = pc]

\* Mutant: create_backup copies whether or not there is a backup.
sync_step_overwrites_backup(files, inv) ==
    LET backup_path == with_suffix(config_path, BACKUP_SUFFIX)
        tmp == tmp_path(config_path)
    IN  CASE inv.pc = "path_exists" ->
                 [fs |-> files,
                  inv |-> Goto(inv, IF exists(files, config_path) THEN "copy" ELSE "config_exists")]
          [] inv.pc = "copy" ->
                 IF exists(files, config_path)
                 THEN [fs |-> [files EXCEPT ![backup_path] = files[config_path]],
                       inv |-> Goto(inv, "config_exists")]
                 ELSE [fs |-> files, inv |-> [inv EXCEPT !.pc = "done", !.res = "err"]]
          [] inv.pc = "config_exists" ->
                 [fs |-> files,
                  inv |-> IF exists(files, config_path) THEN Goto(inv, "read")
                          ELSE [inv EXCEPT !.pc = "write", !.config = JObj(EmptyMap)]]
          [] inv.pc = "read" ->
                 [fs |-> files,
                  inv |-> [inv EXCEPT !.pc = "write",
                                      !.config = IF from_str(files[config_path]).some
                                                 THEN from_str(files[config_path]).v
                                                 ELSE JObj(EmptyMap)]]
          [] inv.pc = "write" ->
                 [fs |-> [files EXCEPT ![tmp] = to_string_pretty(
                              apply_sync_to_config(inv.config, UrlH, inv.api_key,
                                                   OnlyModels(<<ModelA>>)))],
                  inv |-> Goto(inv, "rename")]
          [] inv.pc = "rename" ->
                 IF exists(files, tmp)
                 THEN [fs |-> [files EXCEPT ![config_path] = files[tmp], ![tmp] = Absent],
                       inv |-> [inv EXCEPT !.pc = "done", !.res = "ok"]]
                 ELSE [fs |-> files, inv |-> [inv EXCEPT !.pc = "done", !.res = "err"]]

\* The next file system call of a sync_opencode_config that is at inv.pc, and what
\* the invocation does with its result: [fs, inv].
sync_step(files, inv) ==
    LET backup_path == with_suffix(config_path, BACKUP_SUFFIX)
        tmp == tmp_path(config_path)
    IN  CASE inv.pc = "path_exists" ->
                 \* create_backup: if !path.exists() { return Ok(()) }
                 [fs |-> files,
                  inv |-> Goto(inv, IF exists(files, config_path) THEN "backup_exists"
                                   ELSE "config_exists")]
          [] inv.pc = "backup_exists" ->
                 \* create_backup: if backup_path.exists() { return Ok(()) }
                 [fs |-> files,
                  inv |-> Goto(inv, IF exists(files, backup_path) THEN "config_exists" ELSE "copy")]
          [] inv.pc = "copy" ->
                 \* fs::copy(path, &backup_path)?
                 IF exists(files, config_path)
                 THEN [fs |-> [files EXCEPT ![backup_path] = files[config_path]],
                       inv |-> Goto(inv, "config_exists")]
                 ELSE [fs |-> files, inv |-> [inv EXCEPT !.pc = "done", !.res = "err"]]
          [] inv.pc = "config_exists" ->
                 \* if config_path.exists() { .. } else { json!({}) }
                 [fs |-> files,
                  inv |-> IF exists(files, config_path) THEN Goto(inv, "read")
                          ELSE [inv EXCEPT !.pc = "write", !.config = JObj(EmptyMap)]]
          [] inv.pc = "read" ->
                 \* fs::read_to_string(..).ok().and_then(from_str).unwrap_or(json!({}))
                 [fs |-> files,
                  inv |-> [inv EXCEPT !.pc = "write",
                                      !.config = IF from_str(files[config_path]).some
                                                 THEN from_str(files[config_path]).v
                                                 ELSE JObj(EmptyMap)]]
          [] inv.pc = "write" ->
                 \* fs::write(&tmp_path, to_string_pretty(&config))
                 [fs |-> [files EXCEPT ![tmp] = to_string_pretty(
                              apply_sync_to_config(inv.config, UrlH, inv.api_key,
                                                   OnlyModels(<<ModelA>>)))],
                  inv |-> Goto(inv, "rename")]
          [] inv.pc = "rename" ->
                 \* fs::rename(&tmp_path, &config_path)?
                 IF exists(files, tmp)
                 THEN [fs |-> [files EXCEPT ![config_path] = files[tmp], ![tmp] = Absent],
                       inv |-> [inv EXCEPT !.pc = "done", !.res = "ok"]]
                 ELSE [fs |-> files, inv |-> [inv EXCEPT !.pc = "done", !.res = "err"]]

ConcFiles ==
    {[p \in StepPaths |->
         CASE p = config_path -> c
           [] p = with_suffix(config_path, OLD_BACKUP_SUFFIX) -> co
           [] OTHER -> Absent] :
        c \in {Garbage, UserText(UserDocument), UserText(OldBackupDocument)},
        co \in {Absent, UserText(OldBackupDocument)}}

ConcInit ==
    /\ fs \in ConcFiles
    /\ fsInit = fs /\ fsPre = fs /\ fsHist = <<>> /\ fsRes = "none"
    /\ fsSnap = <<>> /\ fsArgs = <<>>
    /\ todo = <<>>
    /\ call = [i \in Invocations |-> Invocation(ConcKeys[i])]
    /\ NormIdle /\ MergeIdle

\* Invocation i makes its next file system call.
SyncStep(i) ==
    /\ call[i].pc # "done"
    /\ \E r \in {sync_step(fs, call[i])} :
           /\ fs' = r.fs
           /\ call' = [call EXCEPT ![i] = r.inv]
    /\ fsHist' = Append(fsHist, [inv |-> i, op |-> call[i].pc])
    /\ UNCHANGED <<fsInit, fsSnap, fsPre, fsRes, fsArgs, todo, normVars, mergeVars>>

ConcNext == \E i \in Invocations : SyncStep(i)

ConcSpec == ConcInit /\ [][ConcNext]_vars

(***************************************************************************)
(* Properties of ConcSpec.                                                 *)
(***************************************************************************)
BothDone == \A i \in Invocations : call[i].pc = "done"

\* Invocation i made the call op as the n-th call of the two invocations.
Made(i, op, n) == n \in DOMAIN fsHist /\ fsHist[n].inv = i /\ fsHist[n].op = op

\* An invocation copied the config file after the other had renamed its own
\* document over it.
CopiedAfterRename ==
    \E i, j \in Invocations : \E m, n \in DOMAIN fsHist :
        i # j /\ m < n /\ Made(j, "rename", m) /\ Made(i, "copy", n) /\ call[j].res = "ok"

\* One invocation made all its calls before the other made any.
Serialized ==
    \E i, j \in Invocations :
        i # j /\ \A m, n \in DOMAIN fsHist : (fsHist[m].inv = i /\ fsHist[n].inv = j) => m < n

BackupIsOriginal == fs[with_suffix(config_path, BACKUP_SUFFIX)] = fsInit[config_path]

\* C32, as claimed: when two syncs of the same existing config file with no backup
\* interleave file operation by file operation, the current-suffix backup, when
\* both have finished, holds the content the config file had before either began.
C32_ConcurrentBackup == BothDone => BackupIsOriginal

\* C32, amended: the same, for the interleavings in which no invocation copies the
\* config file after the other has renamed its document over it; the interleavings
\* in which one invocation runs after the other are among them.
C32_ConcurrentBackupAmended ==
    BothDone =>
        /\ ~CopiedAfterRename => BackupIsOriginal
        /\ Serialized => ~CopiedAfterRename

\* The two invocations overlapped: both found no backup and both copied the
\* original before either renamed.
C32_Witness ==
    /\ BothDone /\ ~Serialized /\ ~CopiedAfterRename
    /\ \A i \in Invocations : \E n \in DOMAIN fsHist : Made(i, "copy", n)
    /\ \A i \in Invocations : call[i].res = "ok"
    /\ BackupIsOriginal

\* The second invocation found no backup, the first one copied and renamed, and the
\* second one then copied the first one's document over the backup.
C32_LostWitness ==
    /\ BothDone /\ CopiedAfterRename
    /\ fsInit[config_path] = UserText(UserDocument)
    /\ fs[with_suffix(config_path, BACKUP_SUFFIX)].fmt = "pretty"

(***************************************************************************)
(* Properties of StepSpec: a sync of both files that returns an error.     *)
(***************************************************************************)
SyncOfBothFailed ==
    /\ ~Running /\ CallName = "sync"
    /\ fsArgs.sync_accounts
    /\ fsRes = "err"

\* C33: a sync with sync_accounts = true that returns an error (the account
\* listing fails, a write fails) leaves the config file and the accounts file with
\* the content they had before the call.
C33_SyncAllOrNothing ==
    SyncOfBothFailed => \A f \in Targets : fs[<<f, "">>] = fsPre[<<f, "">>]

\* The accounts file is as before the call after every such error.
C33_AccountsAsBefore ==
    SyncOfBothFailed => fs[accounts_path] = fsPre[accounts_path]

\* The account listing failed after the config file was rewritten.
C33_ListingWitness ==
    /\ SyncOfBothFailed /\ ~fsArgs.listing.ok
    /\ fsPre[config_path] = UserText(UserDocument)
    /\ fs[config_path].fmt = "pretty"
    /\ fs[accounts_path] = fsPre[accounts_path]

(***************************************************************************)
(* Properties of AccountsSpec: the same sync twice.                        *)
(***************************************************************************)
\* The last two calls wrote the file, from the same accounts at the same clock.
SameSyncTwice ==
    /\ Calls >= 2 /\ Written /\ fsHist[Calls - 1].res = "ok"
    /\ fsArgs.seen = fsArgs.listing
    /\ fsArgs.seenAt = fsArgs.now

\* No two accounts that are written have the same refresh token.
DistinctTokens(listing) ==
    \A i, j \in DOMAIN listing.accounts :
        (i # j /\ IsEnabled(listing.accounts[i]) /\ IsEnabled(listing.accounts[j]))
            => listing.accounts[i].refresh_token # listing.accounts[j].refresh_token

\* C34, as claimed: sync_accounts_file run twice in a row with the same accounts
\* and the same clock writes the second time the file it wrote the first time,
\* whatever the accounts and the file there was.
C34_ReconcileIdempotent == SameSyncTwice => fs[accounts_path] = fsPre[accounts_path]

\* C34, amended: the same, for the account lists in which no two accounts that
\* are written have the same refresh token.
C34_ReconcileIdempotentAmended ==
    (SameSyncTwice /\ DistinctTokens(fsArgs.listing)) => fs[accounts_path] = fsPre[accounts_path]

\* The second sync of three accounts met the records the first one had made of
\* the four records of the file, and wrote them again.
C34_Witness ==
    /\ SameSyncTwice /\ Calls = 2
    /\ fsArgs.listing = Listed(<<AppAccountA, AppAccountD, AppAccountB>>)
    /\ fsInit[accounts_path].fmt = "user" /\ is_object(fsInit[accounts_path].doc)
    /\ Get(fsInit[accounts_path].doc, "accounts") = JArr(<<RecA, RecC, RecD, RecB>>)
    /\ fs[accounts_path] = fsPre[accounts_path]
    /\ fs[accounts_path] # fsInit[accounts_path]
    /\ Get(OutAccounts[1], "coolingDownUntil") = JNum(50)

\* a@x and b@x have the same refresh token: the second sync gave a@x the record
\* the first one had written for b@x.
C34_SharedTokenWitness ==
    /\ SameSyncTwice /\ Calls = 2
    /\ fsArgs.listing = Listed(<<AppAccountE, AppAccountF, AppAccountB>>)
    /\ fs[accounts_path] # fsPre[accounts_path]

(***************************************************************************)
(* Properties of AccountsSpec: the accounts that take one record's state.  *)
(***************************************************************************)
Highest(S) == CHOOSE j \in S : \A n \in S : n <= j

\* The accounts of the last call that are written.
WrittenAccounts == {i \in DOMAIN fsArgs.listing.accounts : IsEnabled(fsArgs.listing.accounts[i])}

Account(i) == fsArgs.listing.accounts[i]

\* Account i takes the state of the existing record j: j is the last record with
\* its refresh token or, when no record has it, the last record with its email, and
\* the record written for the account holds the addedAt and the fields the plugin
\* owns of record j.
TakesStateOf(i, j) ==
    /\ IF TokenMatches(Account(i)) # {} THEN j = Highest(TokenMatches(Account(i)))
       ELSE EmailMatches(Account(i)) # {} /\ j = Highest(EmailMatches(Account(i)))
    /\ \E n \in DOMAIN OutAccounts :
           /\ WrittenFor(OutAccounts[n], Account(i))
           /\ \A key \in OwnedFields \cup {"addedAt"} :
                  Field(OutAccounts[n], key) = Field(PrevRecords[j], key)

Heirs(j) == {i \in WrittenAccounts : TakesStateOf(i, j)}

\* C35: in one reconciliation the state of an existing record (addedAt, cooldown,
\* fingerprint, cached quota) goes to at most one written record: no two accounts
\* take the state of the same record, one by its refresh token and the other by
\* its email.
C35_InheritanceOneToOne ==
    Written => \A j \in DOMAIN PrevRecords : Cardinality(Heirs(j)) <= 1

\* C35, amended: every account that matches a record takes its state, and two
\* accounts take the state of the same record only when they have the same refresh
\* token, or the same email, or when one has the refresh token of the record and
\* the other, whose refresh token is on no record, has its email.
C35_InheritanceAmended ==
    Written =>
        /\ \A i \in WrittenAccounts :
               (TokenMatches(Account(i)) \cup EmailMatches(Account(i))) # {}
                   => \E j \in DOMAIN PrevRecords : i \in Heirs(j)
        /\ \A j \in DOMAIN PrevRecords : \A i, k \in Heirs(j) :
               \/ i = k
               \/ Account(i).refresh_token = Account(k).refresh_token
               \/ Account(i).email = Account(k).email
               \/ (TokenMatches(Account(i)) = {}) # (TokenMatches(Account(k)) = {})

\* The file held the record of a@x under rt-a: c@x, which has rt-a, and a@x, which
\* has another token, both took its state.
C35_Witness ==
    /\ Written /\ Calls = 1
    /\ Field(fsPre[accounts_path].doc, "accounts") = JArr(<<RecA>>)
    /\ fsArgs.listing = Listed(<<AppAccountE, AppAccountF, AppAccountB>>)
    /\ Heirs(1) = {1, 2}
    /\ Get(OutAccounts[1], "coolingDownUntil") = JNum(50)
    /\ Get(OutAccounts[2], "coolingDownUntil") = JNum(50)
    /\ ~Has(OutAccounts[3], "coolingDownUntil")

(***************************************************************************)
(* Properties of Spec: a clear after syncs of the accounts.                *)
(***************************************************************************)
NoBackupAtFirst == \A p \in Paths : p[2] # "" => ~exists(fsInit, p)

\* Every call but the last was a sync with sync_accounts = true that returned Ok,
\* and the last was a clear that returned Ok.
AccountSyncsThenClear ==
    /\ Calls >= 2
    /\ fsHist[Calls].name = "clear" /\ fsHist[Calls].res = "ok"
    /\ \A n \in DOMAIN fsHist :
           n < Calls => fsHist[n].name = "sync" /\ fsHist[n].res = "ok" /\ fsHist[n].accounts

\* C36, as claimed: with no backup file at first, one or more successful syncs
\* with sync_accounts = true and then a clear leave the accounts file as it was at
\* first: absent if it was absent, with its content if it was there.
C36_ClearReversesAccounts ==
    (NoBackupAtFirst /\ AccountSyncsThenClear) => fs[accounts_path] = fsInit[accounts_path]

\* C36, amended: the same when the accounts file was there at first, or when there
\* was one sync; with no accounts file at first and two syncs or more, the clear
\* leaves the accounts file that the first sync wrote, which the second sync took
\* as the backup.
C36_ClearReversesAccountsAmended ==
    (NoBackupAtFirst /\ AccountSyncsThenClear) =>
        IF exists(fsInit, accounts_path) \/ Calls = 2
        THEN fs[accounts_path] = fsInit[accounts_path]
        ELSE /\ fs[accounts_path] = fsSnap[ANTIGRAVITY_ACCOUNTS_FILE]
             /\ fs[accounts_path].fmt = "pretty"

\* Two syncs wrote the accounts file that the user had, and the clear put the
\* user's file back.
C36_Witness ==
    /\ NoBackupAtFirst /\ AccountSyncsThenClear /\ Calls > 2
    /\ fsInit[accounts_path] = UserText(ExistingAccountsDocument)
    /\ fsPre[accounts_path].fmt = "pretty"
    /\ fs[accounts_path] = UserText(ExistingAccountsDocument)

\* There was no accounts file: the sync made one and the clear removed it.
C36_AbsentWitness ==
    /\ NoBackupAtFirst /\ AccountSyncsThenClear /\ Calls = 2
    /\ ~exists(fsInit, accounts_path)
    /\ exists(fsPre, accounts_path)
    /\ ~exists(fs, accounts_path)

\* There was no accounts file: after two syncs the clear left a synced one.
C36_LeftWitness ==
    /\ NoBackupAtFirst /\ AccountSyncsThenClear /\ Calls > 2
    /\ ~exists(fsInit, accounts_path)
    /\ fs[accounts_path].fmt = "pretty"
    /\ ~exists(fs, with_suffix(accounts_path, BACKUP_SUFFIX))

(***************************************************************************)
(* get_sync_status, asked between the calls                                *)
(***************************************************************************)

get_provider_options(value, provider_name) ==
    IF HasPath(value, <<"provider", provider_name, "options">>)
    THEN Some(At(value, <<"provider", provider_name, "options">>))
    ELSE [some |-> FALSE, v |-> JNull]

\* o.get(key).and_then(|v| v.as_str()) on the options found.
OptionStr(opts, key) ==
    IF opts.some /\ Has(opts.v, key) /\ Get(opts.v, key).k = "str"
    THEN Some(Get(opts.v, key).s) ELSE None

\* Mutant: a backup of the accounts file counts as well.
has_backup_of_any_target(files) ==
    \E f \in Targets : exists(files, <<f, BACKUP_SUFFIX>>) \/ exists(files, <<f, OLD_BACKUP_SUFFIX>>)

has_backup_of_config(files) ==
    \/ exists(files, with_suffix(config_path, BACKUP_SUFFIX))
    \/ exists(files, with_suffix(config_path, OLD_BACKUP_SUFFIX))

get_sync_status(paths, files, proxy_url) ==
    IF ~paths.some
    THEN [is_synced |-> FALSE, has_backup |-> FALSE, current_base_url |-> None]
    ELSE LET has_backup == has_backup_of_config(files)
             parsed == from_str(files[paths.v[1]])
             json == IF parsed.some THEN parsed.v ELSE JNull
             normalized_proxy == normalize_opencode_base_url(proxy_url)
             ag_opts == get_provider_options(json, ANTIGRAVITY_PROVIDER_ID)
             ag_url == OptionStr(ag_opts, "baseURL")
             ag_key == OptionStr(ag_opts, "apiKey")
         IN  IF ~exists(files, paths.v[1])
             THEN [is_synced |-> FALSE, has_backup |-> has_backup, current_base_url |-> None]
             ELSE IF ag_url.some /\ ag_key.some
             THEN [is_synced |-> normalize_opencode_base_url(ag_url.v) = normalized_proxy,
                   has_backup |-> has_backup,
                   current_base_url |-> Some(ag_url.v)]
             ELSE [is_synced |-> FALSE, has_backup |-> has_backup, current_base_url |-> None]

\* A config file whose managed entry has a string for its options.
StringOptionsDocument ==
    Obj({<<"theme", JStr(<<"dark">>)>>,
         <<"provider", Obj({<<ANTIGRAVITY_PROVIDER_ID, JObj([options |-> JStr(<<"opts">>)])>>})>>})

\* A config file whose managed entry has an endpoint and no key.
KeylessDocument ==
    Obj({<<"provider",
           Obj({<<ANTIGRAVITY_PROVIDER_ID,
                  JObj([options |-> JObj([baseURL |-> JStr(<<"g", "/", "v", "1">>)])])>>})>>})

StatusFiles ==
    {[p \in Paths |->
         CASE p = config_path -> c
           [] p = accounts_path -> a
           [] p = with_suffix(config_path, OLD_BACKUP_SUFFIX) -> co
           [] p = with_suffix(accounts_path, OLD_BACKUP_SUFFIX) -> ao
           [] OTHER -> Absent] :
        c \in {Absent, Garbage, UserText(UserDocument), UserText(StringOptionsDocument),
               UserText(KeylessDocument)},
        a \in {Absent, UserText(ExistingAccountsDocument)},
        co \in {Absent, UserText(OldBackupDocument)},
        ao \in {Absent, UserText(OldAccountsDocument)}}

\* The endpoint and the account inputs of the syncs.
StatusSyncs == {<<UrlH, <<FALSE, ListingFailed>>>>, <<UrlG, <<TRUE, Listed(<<AppAccountA>>)>>>>}

\* The endpoints the status is asked for.
StatusUrls == {UrlH, <<"h", "/", "v", "1", "/">>, <<"g">>}

StatusInit ==
    /\ fs \in StatusFiles
    /\ fsInit = fs /\ fsPre = fs /\ fsHist = <<>> /\ fsRes = "none"
    /\ fsSnap = [f \in Targets |-> Absent]
    /\ fsArgs = NoArgs
    /\ todo = <<>> /\ call = <<>>
    /\ NormIdle /\ MergeIdle

SyncTo(e, c, m, acc, now) ==
    /\ Len(fsHist) < MaxFsOps
    /\ \E r \in {sync_opencode_config(fs, e, c, acc[1], m, acc[2], now)} :
           Called("sync", [sync_accounts |-> acc[1], listing |-> acc[2], now |-> now,
                           proxy_url |-> e, api_key |-> c], r)

\* The query changes no file; its answer is kept with the calls.
Status(e) ==
    /\ Len(fsHist) < MaxFsOps
    /\ fsHist' = Append(fsHist, [name |-> "status", res |-> "ok", both |-> HasBothBackups(fs),
                                  accounts |-> FALSE, proxy_url |-> e,
                                  status |-> get_sync_status(get_config_paths(TRUE), fs, e)])
    /\ UNCHANGED <<fs, fsInit, fsSnap, fsPre, fsRes, fsArgs, todo, call, normVars, mergeVars>>

StatusNext ==
    \/ \E x \in StatusSyncs, c \in Credentials, m \in FsSelectors, now \in Clock :
           SyncTo(x[1], c, m, x[2], now)
    \/ Clear(None, FALSE)
    \/ Restore
    \/ \E e \in StatusUrls : Status(e)

StatusSpec == StatusInit /\ [][StatusNext]_vars

\* The status asked right after a sync that returned Ok.
StatusAfterSync ==
    /\ LastCalls(<<"sync", "status">>)
    /\ fsHist[Calls - 1].res = "ok"

SameEndpoint(a, b) == normalize_opencode_base_url(a) = normalize_opencode_base_url(b)

Answer == fsHist[Calls].status

Asked == fsHist[Calls].proxy_url

\* C37: the status asked right after an Ok sync to endpoint e reports
\* is_synced exactly for the endpoints e' with the normalized form of e, and
\* reports the normalized e as the current endpoint, whatever the config file
\* held before the sync.
C37_StatusAgreesWithSync ==
    StatusAfterSync =>
        /\ Answer.is_synced <=> SameEndpoint(Asked, fsArgs.proxy_url)
        /\ Answer.current_base_url = Some(normalize_opencode_base_url(fsArgs.proxy_url))

\* The managed entry of the file the sync read had options that are no object.
OptionsWereNoObject ==
    /\ from_str(fsPre[config_path]).some
    /\ HasPath(from_str(fsPre[config_path]).v, ManagedPath \o <<"options">>)
    /\ ~is_object(At(from_str(fsPre[config_path]).v, ManagedPath \o <<"options">>))

\* Status and sync agree after every sync that found no such options.
C37_StatusAfterMerge ==
    (StatusAfterSync /\ ~OptionsWereNoObject) =>
        /\ Answer.is_synced <=> SameEndpoint(Asked, fsArgs.proxy_url)
        /\ Answer.current_base_url = Some(normalize_opencode_base_url(fsArgs.proxy_url))

\* A sync over garbage, then the status asked with another spelling of the
\* endpoint, and with another endpoint.
C37_Witness ==
    /\ StatusAfterSync /\ fsPre[config_path] = Garbage
    /\ Asked # fsArgs.proxy_url /\ Answer.is_synced

C37_OtherEndpointWitness ==
    /\ StatusAfterSync /\ ~OptionsWereNoObject
    /\ ~SameEndpoint(Asked, fsArgs.proxy_url) /\ ~Answer.is_synced
    /\ Answer.current_base_url.some

\* The sync returned Ok over string options; the status finds no endpoint.
C37_StringOptionsWitness ==
    /\ StatusAfterSync /\ OptionsWereNoObject
    /\ SameEndpoint(Asked, fsArgs.proxy_url)
    /\ ~Answer.is_synced /\ Answer.current_base_url = None

\* The restore called right after the status was asked.
RestoreAfterStatus == LastCalls(<<"status", "restore">>)

\* C38: in every state reached by syncs, clears and restores, has_backup of
\* get_sync_status is true exactly when restore_opencode_config, called in
\* that state, finds a backup and succeeds.
C38_HasBackupIffRestorable ==
    RestoreAfterStatus => (fsHist[Calls - 1].status.has_backup <=> fsRes = "ok")

\* has_backup answers for the config file alone.
C38_HasBackupOfConfig ==
    (Calls >= 1 /\ fsHist[Calls].name = "status") =>
        (Answer.has_backup <=> has_backup_of_config(fs))

\* The restore succeeds exactly when either target has a backup.
C38_RestoreOfAnyTarget ==
    RestoreAfterStatus => (fsRes = "ok" <=> has_backup_of_any_target(fsPre))

\* A sync made the backup of the accounts file only; the status said there
\* was no backup and the restore put the accounts file back.
C38_AccountsOnlyWitness ==
    /\ Calls = 3 /\ LastCalls(<<"sync", "status", "restore">>)
    /\ ~has_backup_of_any_target(fsInit)
    /\ ~fsHist[Calls - 1].status.has_backup
    /\ fsRes = "ok"
    /\ fs[accounts_path] = fsInit[accounts_path]

C38_AgreeWitness ==
    /\ RestoreAfterStatus /\ fsHist[Calls - 1].status.has_backup /\ fsRes = "ok"
    /\ Calls >= 3

(***************************************************************************)
(* Properties of MergeSpec: the allowlist and the catalog.                 *)
(***************************************************************************)
\* The ids of the catalog, in its order.
CatalogIdList == [i \in DOMAIN build_model_catalog |-> build_model_catalog[i].id]

NoDuplicates(ids) == \A i, j \in DOMAIN ids : ids[i] = ids[j] => i = j

\* The last call was a sync of the whole catalog.
FullSync == LastIs("sync") /\ ~Last.m.some

\* The ids the last call added to the managed models map.
InsertedIds == ManagedModelKeys(config) \ ManagedModelKeys(prev)

\* The ids the last call took from the models map of a legacy provider.
RemovedIds(name) ==
    IF HasPath(prev, ModelsPath(name)) /\ is_object(At(prev, ModelsPath(name)))
    THEN (DOMAIN At(prev, ModelsPath(name)).o)
             \ (IF HasPath(config, ModelsPath(name)) /\ is_object(At(config, ModelsPath(name)))
                THEN DOMAIN At(config, ModelsPath(name)).o ELSE {})
    ELSE {}

\* C39: ANTIGRAVITY_MODEL_IDS and the model catalog hold the same set of ids
\* and neither holds an id twice, so a full sync inserts only ids of the
\* allowlist, leaves every id of the allowlist in a managed models map, and a
\* legacy cleanup removes only ids of the catalog.
C39_AllowlistIsCatalog ==
    /\ AllowlistIds = CatalogIds
    /\ NoDuplicates(ANTIGRAVITY_MODEL_IDS)
    /\ NoDuplicates(CatalogIdList)
    /\ FullSync =>
           /\ InsertedIds \subseteq AllowlistIds
           /\ is_object(At(config, ManagedPath \o <<"models">>)) =>
                  AllowlistIds \subseteq ManagedModelKeys(config)
    /\ LegacyClear =>
           \A name \in LegacyNames : RemovedIds(name) \subseteq CatalogIds

\* A full sync inserted every id of the allowlist, and a legacy cleanup
\* removed ids of the catalog.
C39_Witness ==
    /\ FullSync
    /\ InsertedIds = AllowlistIds
    /\ Cardinality(InsertedIds) = Len(ANTIGRAVITY_MODEL_IDS)

C39_CleanupWitness ==
    /\ LegacyClear
    /\ \E name \in LegacyNames : RemovedIds(name) # {} /\ RemovedIds(name) \subseteq CatalogIds

====
